---- MODULE Spec2Model ----
(***************************************************************************)
(* A model of the decision-and-risk core of the StockAnalysis repository:  *)
(*   - StockAnalyzer.generate_signal and the checks it runs                *)
(*     (src/stock_analyzer.py),                                            *)
(*   - the secondary signal fusion of analyze_stock_1week, analyze_trend   *)
(*     (src/bot_dashboard.py) and generate_combined_signal                 *)
(*     (src/investment_finder.py),                                         *)
(*   - AutoTrader's daily limit guard and trading cycle                    *)
(*     (src/auto_trader.py, src/database.py),                              *)
(*   - the FIFO reconciliation of analyze_pnl (src/bot_dashboard.py).      *)
(* Each part has its own specification over the shared variables; the      *)
(* variables of the other parts stay at their initial values.              *)
(***************************************************************************)
EXTENDS Integers, Sequences, FiniteSets, TLC

(***************************************************************************)
(* Python values.  An optional value is <<>> (None) or <<v>>.  A dict      *)
(* is a record; d.get(k, default) is Get(d, k, default).  A float that is  *)
(* the quotient of two integers is kept as an exact fraction.              *)
(***************************************************************************)
None == <<>>

Some(v) == <<v>>

Val(o) == o[1]

Get(d, k, default) == IF k \in DOMAIN d THEN d[k] ELSE default

\* truth value of an optional number: None and 0 are falsy
Truthy(o) == o # None /\ Val(o) # 0

Abs(x) == IF x < 0 THEN -x ELSE x

Rat(n, d) == [num |-> n, den |-> d]

RatGE(r, k) == r.num >= k * r.den

RatGT(r, k) == r.num > k * r.den

RatAdd(a, b) == Rat(a.num * b.den + b.num * a.den, a.den * b.den)

RECURSIVE RatSum(_)
RatSum(s) == IF s = <<>> THEN Rat(0, 1) ELSE RatAdd(s[1], RatSum(Tail(s)))

\* np.mean of a non-empty list of fractions
RatMean(s) == Rat(RatSum(s).num, RatSum(s).den * Len(s))

BoolInt(b) == IF b THEN 1 ELSE 0

Min(a, b) == IF a <= b THEN a ELSE b

(***************************************************************************)
(* Program constants of src/stock_analyzer.py                              *)
(***************************************************************************)
MA50Window == 50

MA200Window == 200

GrowthTarget == 25

VolumeBreakoutPct == 40

(***************************************************************************)
(* Input domains: the values the external data ports are taken to return.  *)
(***************************************************************************)
\* number of daily bars in a fetched series, around the two window sizes
LenDomain == {MA50Window - 1, MA50Window, MA200Window - 1, MA200Window, MA200Window + 1}

\* closing prices (positive) and moving-average values
PriceDomain == {90, 100, 120}

MADomain == {95, 110}

\* net income figures of the income statements, most recent first
NetIncomeDomain == {0, 100, 130}

\* the annual income statement: None, or the 'Net Income' row
AnnualDomain == {None, Some(<<130, 100>>), Some(<<100, 100, 100>>),
                 Some(<<130, 100, 100>>), Some(<<100, 130, 0>>),
                 Some(<<0, 100, 0>>), Some(<<169, 130, 100, 100>>)}

\* trailingEps / forwardEps of the info dict; 0 stands for absent, None or 0
EpsDomain == {0, 4, 5}

\* latest volume and its 50-bar rolling mean
VolumeDomain == {100, 140}

AvgVolumeDomain == {0, 100}

\* SPY closing prices
SpyPriceDomain == {100, 120}

VARIABLES
    sig_pc,         \* position inside StockAnalyzer.generate_signal
    data,           \* self.data: None or <<[len, close]>>
    eps_check,      \* locals of generate_signal
    annual_growth,
    ma_check,
    volume_check,
    market_check,
    buy_criteria,
    buy_score,
    sell_reasons,
    sig_result,     \* the returned dict, None before the return
    fus,            \* the dict returned by the latest signal-fusion call, None before
    tr_pc,          \* AutoTrader: "idle" between cycles, "loop" inside the watchlist loop
    tr_idx,         \* index of the next watchlist item of the running cycle
    caps,           \* self.max_daily_trades / max_daily_buys / max_daily_sells
    trades,         \* rows of the trades table of this user, oldest first
    positions,      \* broker: filled position quantity per symbol
    lost,           \* number of accepted orders whose log_trade call failed
    submitted,      \* orders accepted by the broker during the host's current day
    today,          \* datetime.now().date() on the trader's host
    utc_date,       \* date of SQLite's CURRENT_TIMESTAMP (UTC)
    tz,             \* where the host's clock stands relative to UTC
    last_check,     \* the stand-alone check_daily_limits call just made, None otherwise
    tr_last,        \* how the iteration of process_stock just run ended, None otherwise
    pnl_pc,         \* analyze_pnl: "rows" inside the loop over the log, "done" after return
    n_rows,         \* number of rows of the log the loop has gone through
    row,            \* the row of the latest iteration, None before the first
    open_buys,      \* open_buys: per symbol the list of open buy lots, oldest first
    pairs,          \* pairs: the matched pairs, in the order they were appended
    pnl_result,     \* the dict analyze_pnl returned, None before
    tally,          \* per symbol, the quantities of the rows read so far
    sz_env,         \* calculate_position_size: what the ports and the caller supply
    sz_call,        \* the latest call: its risk_percent and the quantity returned
    sz_prev,        \* the call before the latest one, None if there was none
    st_in,          \* buy sizing: the analysis and the two settings of the trader
    st_strategy,    \* the dict analyze_buying_strategy returned, None before
    st_buy,         \* what execute_buy met and did, None before
    sim_pc,         \* Simulator.run: "exits", "entries", "mark", "flush", "stopped" or "crashed"
    sim_idx,        \* index in WATCHLIST of the symbol of the running iteration
    sim_cur,        \* px and sig of that symbol once its bars are read, else None
    sim_prices,     \* prices: the px of the symbols read in this tick
    sim_positions,  \* self.positions: per symbol a Position or None
    sim_cash,       \* self.cash, in cents
    sim_equity,     \* self.equity, in cents
    sim_trade_log,  \* self.trade_log
    sim_equity_log, \* self.equity_log
    sim_caught,     \* did the latest iteration end in the except branch
    boot_prog,      \* the entry point started: "auto_trader" or "sim"
    boot_key,       \* the API key the entry point finds: "absent", "empty" or "set"
    boot_secret,    \* the API secret it finds
    boot_rest,      \* does the REST constructor of the library raise without credentials
    boot_pc,        \* "start", "loop" (inside while True), "sleep" or "dead"
    boot_iters,     \* iterations of the polling loop begun
    boot_cycles,    \* cycles of check_and_execute_trades, or ticks of the Simulator, run
    w_caps,         \* the daily limits of the user, read by every AutoTrader
    w_ledger,       \* today's rows of the trades table of the user: buys and sells
    w_pc,           \* per execution: "idle", or "passed" after check_daily_limits said yes
    w_act           \* per execution: the action its check let through, "none" when idle

sigVars == <<sig_pc, data, eps_check, annual_growth, ma_check, volume_check,
             market_check, buy_criteria, buy_score, sell_reasons, sig_result>>

trVars == <<tr_pc, tr_idx, caps, trades, positions, lost, submitted,
            today, utc_date, tz, last_check, tr_last>>

pnlVars == <<pnl_pc, n_rows, row, open_buys, pairs, pnl_result, tally>>

szVars == <<sz_env, sz_call, sz_prev>>

stVars == <<st_in, st_strategy, st_buy>>

simVars == <<sim_pc, sim_idx, sim_cur, sim_prices, sim_positions, sim_cash,
             sim_equity, sim_trade_log, sim_equity_log, sim_caught>>

bootVars == <<boot_prog, boot_key, boot_secret, boot_rest, boot_pc, boot_iters,
              boot_cycles>>

wrVars == <<w_caps, w_ledger, w_pc, w_act>>

vars == <<sigVars, fus, trVars, pnlVars, szVars, stVars, simVars, bootVars, wrVars>>

(***************************************************************************)
(* StockAnalyzer: the checks, as functions of what the data port returned  *)
(***************************************************************************)
NoEps == [yoy_growth |-> None, meets_criteria |-> FALSE]

\* q: None, or <<[cur, prev]>> = net income of the latest and the year-ago
\* quarter; trailing, forward: the EPS figures of the info dict.
\* (current_eps / year_ago_eps of the result are not read by any caller.)
EpsGrowth(q, trailing, forward) ==
    IF q # None /\ Val(q).cur # 0 /\ Val(q).prev # 0
    THEN LET g == Rat((Val(q).cur - Val(q).prev) * 100, Abs(Val(q).prev))
         IN  [yoy_growth |-> Some(g), meets_criteria |-> RatGE(g, GrowthTarget)]
    ELSE IF trailing # 0 /\ forward # 0 /\ trailing > 0
    THEN LET g == Rat((forward - trailing) * 100, trailing)
         IN  [yoy_growth |-> Some(g), meets_criteria |-> RatGE(g, GrowthTarget)]
    ELSE NoEps

NoAnnual == [avg_growth |-> None, meets_criteria |-> FALSE]

\* growth_rates of check_annual_growth: i ranges over range(min(3, len-1))
RECURSIVE GrowthRates(_, _, _)
GrowthRates(ni, i, n) ==
    IF i > n THEN <<>>
    ELSE LET rest == GrowthRates(ni, i + 1, n)
         IN  IF ni[i] # 0 /\ ni[i + 1] # 0
             THEN <<Rat((ni[i] - ni[i + 1]) * 100, Abs(ni[i + 1]))>> \o rest
             ELSE rest

\* stmt: None (no statement, or no 'Net Income' row), or <<ni>> with ni
\* the sequence of annual net incomes, one per column
AnnualGrowth(stmt) ==
    IF stmt = None \/ Len(Val(stmt)) < 3 THEN NoAnnual
    ELSE LET ni == Val(stmt)
             rates == GrowthRates(ni, 1, Min(3, Len(ni) - 1))
         IN  IF rates # <<>>
             THEN [avg_growth |-> Some(RatMean(rates)),
                   meets_criteria |-> RatGE(RatMean(rates), GrowthTarget)]
             ELSE NoAnnual

\* d = self.data (None, or <<[len, close]>>); the four rolling means are None where the code does not
\* compute them.  (distance_from_50/200 are display-only and left out.)
MovingAverages(d, ma_50, ma_200, ma_50_prev, ma_200_prev) ==
    IF d = None \/ Val(d).len < MA50Window THEN [meets_criteria |-> FALSE]
    ELSE LET current_price == Val(d).close
             golden_cross ==
                 IF ma_50 # None /\ ma_200 # None /\ ma_50_prev # None /\ ma_200_prev # None
                 THEN Val(ma_50) > Val(ma_200) /\ Val(ma_50_prev) <= Val(ma_200_prev)
                 ELSE FALSE
             above_50 == IF ma_50 # None THEN current_price > Val(ma_50) ELSE FALSE
             above_200 == IF ma_200 # None THEN current_price > Val(ma_200) ELSE FALSE
         IN  [current_price |-> Some(current_price),
              ma_50 |-> ma_50,
              ma_200 |-> ma_200,
              above_50 |-> above_50,
              above_200 |-> above_200,
              golden_cross |-> golden_cross,
              meets_criteria |-> above_50 /\ above_200]

VolumeBreakout(d, recent_volume, avg_volume) ==
    IF d = None \/ Val(d).len < MA50Window THEN [meets_criteria |-> FALSE]
    ELSE IF avg_volume = 0 THEN [meets_criteria |-> FALSE]
    ELSE LET pct == Rat((recent_volume - avg_volume) * 100, avg_volume)
         IN  [volume_increase_pct |-> pct,
              breakout |-> RatGE(pct, VolumeBreakoutPct),
              meets_criteria |-> RatGE(pct, VolumeBreakoutPct)]

\* spy: None (download failed or empty), or <<[len, price, ma_50, ma_200]>>
\* with ma_200 = None when len < 200
MarketTrend(spy) ==
    IF spy = None \/ Val(spy).len < MA50Window
    THEN [uptrend |-> None, meets_criteria |-> FALSE]
    ELSE LET s == Val(spy)
             uptrend == IF s.ma_200 # None
                        THEN s.price > Val(s.ma_50) /\ s.price > Val(s.ma_200)
                             /\ Val(s.ma_50) > Val(s.ma_200)
                        ELSE s.price > Val(s.ma_50)
         IN  [spy_price |-> s.price,
              spy_ma_50 |-> s.ma_50,
              spy_ma_200 |-> s.ma_200,
              uptrend |-> Some(uptrend),
              meets_criteria |-> uptrend]

(***************************************************************************)
(* StockAnalyzer.generate_signal, one action per step of its body          *)
(***************************************************************************)
OptIf(cond, S) == IF cond THEN {Some(v) : v \in S} ELSE {None}

ErrorResult == [signal |-> "ERROR", confidence |-> 0, reason |-> "Failed to fetch data"]

SigInit ==
    /\ sig_pc = "start"
    /\ data = None
    /\ eps_check = None
    /\ annual_growth = None
    /\ ma_check = None
    /\ volume_check = None
    /\ market_check = None
    /\ buy_criteria = None
    /\ buy_score = 0
    /\ sell_reasons = <<>>
    /\ sig_result = None

\* fetch_data fails (exception or empty frame): generate_signal returns ERROR
fetch_data_fail ==
    /\ sig_pc = "start"
    /\ sig_pc' = "done"
    /\ sig_result' = Some(ErrorResult)
    /\ UNCHANGED <<data, eps_check, annual_growth, ma_check, volume_check,
                   market_check, buy_criteria, buy_score, sell_reasons>>

fetch_data_ok ==
    /\ sig_pc = "start"
    /\ \E n \in LenDomain, p \in PriceDomain :
           data' = Some([len |-> n, close |-> p])
    /\ sig_pc' = "eps"
    /\ UNCHANGED <<eps_check, annual_growth, ma_check, volume_check,
                   market_check, buy_criteria, buy_score, sell_reasons, sig_result>>

check_eps_growth ==
    /\ sig_pc = "eps"
    /\ \E q \in {None} \cup {Some([cur |-> c, prev |-> p]) :
                              c \in NetIncomeDomain, p \in NetIncomeDomain \ {130}},
          t \in EpsDomain, f \in EpsDomain :
           eps_check' = EpsGrowth(q, t, f)
    /\ sig_pc' = "annual"
    /\ UNCHANGED <<data, annual_growth, ma_check, volume_check,
                   market_check, buy_criteria, buy_score, sell_reasons, sig_result>>

check_annual_growth ==
    /\ sig_pc = "annual"
    /\ \E stmt \in AnnualDomain : annual_growth' = AnnualGrowth(stmt)
    /\ sig_pc' = "ma"
    /\ UNCHANGED <<data, eps_check, ma_check, volume_check,
                   market_check, buy_criteria, buy_score, sell_reasons, sig_result>>

calculate_moving_averages ==
    /\ sig_pc = "ma"
    /\ LET n == Val(data).len
       IN  \E ma_50 \in OptIf(n >= MA50Window, MADomain),
              ma_200 \in OptIf(n >= MA200Window, MADomain),
              ma_50_prev \in OptIf(n > MA50Window, MADomain),
              ma_200_prev \in OptIf(n > MA200Window, MADomain) :
               ma_check' = MovingAverages(data, ma_50, ma_200, ma_50_prev, ma_200_prev)
    /\ sig_pc' = "volume"
    /\ UNCHANGED <<data, eps_check, annual_growth, volume_check,
                   market_check, buy_criteria, buy_score, sell_reasons, sig_result>>

check_volume_breakout ==
    /\ sig_pc = "volume"
    /\ \E recent \in VolumeDomain, avg \in AvgVolumeDomain :
           volume_check' = VolumeBreakout(data, recent, avg)
    /\ sig_pc' = "market"
    /\ UNCHANGED <<data, eps_check, annual_growth, ma_check,
                   market_check, buy_criteria, buy_score, sell_reasons, sig_result>>

SpyDomain ==
    {None} \cup
    UNION {{Some([len |-> n, price |-> p, ma_50 |-> m50, ma_200 |-> m200]) :
               p \in SpyPriceDomain,
               m50 \in OptIf(n >= MA50Window, MADomain),
               m200 \in OptIf(n >= MA200Window, MADomain)} : n \in LenDomain}

check_market_trend ==
    /\ sig_pc = "market"
    /\ \E spy \in SpyDomain : market_check' = MarketTrend(spy)
    /\ sig_pc' = "score"
    /\ UNCHANGED <<data, eps_check, annual_growth, ma_check, volume_check,
                   buy_criteria, buy_score, sell_reasons, sig_result>>

BuyCriteria(eps, annual, ma, vol, mkt) ==
    [fundamental |-> Get(eps, "meets_criteria", FALSE) \/ Get(annual, "meets_criteria", FALSE),
     technical |-> Get(ma, "meets_criteria", FALSE),
     volume |-> Get(vol, "meets_criteria", FALSE),
     market |-> Get(mkt, "meets_criteria", FALSE)]

NumTrueOf(bc) == Cardinality({k \in DOMAIN bc : bc[k]})

\* the mutant counts the golden cross as a fifth point
BuyScoreWithGoldenCross(bc, ma) ==
    BoolInt(bc.fundamental) + BoolInt(bc.technical) + BoolInt(bc.volume)
        + BoolInt(bc.market) + BoolInt(Get(ma, "golden_cross", FALSE))

\* sum(buy_criteria.values())
BuyScore(bc, ma) ==
    BoolInt(bc.fundamental) + BoolInt(bc.technical) + BoolInt(bc.volume)
        + BoolInt(bc.market)

SellReasons(ma) ==
    LET current_price == Get(ma, "current_price", Some(0))
        ma_50 == Get(ma, "ma_50", Some(0))
        ma_200 == Get(ma, "ma_200", Some(0))
    IN  (IF Truthy(current_price) /\ Truthy(ma_50) /\ Val(current_price) < Val(ma_50)
         THEN <<"Price below 50-day MA">> ELSE <<>>)
        \o
        (IF Truthy(current_price) /\ Truthy(ma_200) /\ Val(current_price) < Val(ma_200)
         THEN <<"Price below 200-day MA">> ELSE <<>>)

\* lines 365-387: buy criteria, buy score, sell reasons
generate_signal_score ==
    /\ sig_pc = "score"
    /\ buy_criteria' = Some(BuyCriteria(eps_check, annual_growth, ma_check,
                                        volume_check, market_check))
    /\ buy_score' = BuyScore(BuyCriteria(eps_check, annual_growth, ma_check,
                                         volume_check, market_check), ma_check)
    /\ sell_reasons' = SellReasons(ma_check)
    /\ sig_pc' = "decide"
    /\ UNCHANGED <<data, eps_check, annual_growth, ma_check, volume_check,
                   market_check, sig_result>>

\* `x > 0` on None raises TypeError; `a or b` evaluates b only when a is false
HoldRaises(eps, annual) ==
    LET yoy == Get(eps, "yoy_growth", Some(Rat(-100, 1)))
        avg == Get(annual, "avg_growth", Some(Rat(-100, 1)))
    IN  IF yoy = None THEN TRUE
        ELSE IF RatGT(Val(yoy), 0) THEN FALSE
        ELSE avg = None

PositiveFundamentals(eps, annual) ==
    LET yoy == Get(eps, "yoy_growth", Some(Rat(-100, 1)))
        avg == Get(annual, "avg_growth", Some(Rat(-100, 1)))
    IN  IF RatGT(Val(yoy), 0) THEN TRUE ELSE RatGT(Val(avg), 0)

\* the mutant tests the buy score before the sell reasons
DecisionBuyFirst(reasons, score, hold_count) ==
    IF score = 4 THEN [signal |-> "STRONG BUY", confidence |-> 95]
    ELSE IF score = 3 THEN [signal |-> "BUY", confidence |-> 75]
    ELSE IF reasons # <<>>
    THEN [signal |-> "SELL", confidence |-> Min(100, Len(reasons) * 30)]
    ELSE IF hold_count >= 1 THEN [signal |-> "HOLD", confidence |-> 50]
    ELSE [signal |-> "HOLD", confidence |-> 30]

\* the mutant reports a flat confidence for SELL, whatever the number of reasons
DecisionFlatSell(reasons, score, hold_count) ==
    IF reasons # <<>> THEN [signal |-> "SELL", confidence |-> 30]
    ELSE IF score = 4 THEN [signal |-> "STRONG BUY", confidence |-> 95]
    ELSE IF score = 3 THEN [signal |-> "BUY", confidence |-> 75]
    ELSE IF hold_count >= 1 THEN [signal |-> "HOLD", confidence |-> 50]
    ELSE [signal |-> "HOLD", confidence |-> 30]

\* DECISION LOGIC, lines 396-421
Decision(reasons, score, hold_count) ==
    IF reasons # <<>>
    THEN [signal |-> "SELL", confidence |-> Min(100, Len(reasons) * 30)]
    ELSE IF score = 4 THEN [signal |-> "STRONG BUY", confidence |-> 95]
    ELSE IF score = 3 THEN [signal |-> "BUY", confidence |-> 75]
    ELSE IF hold_count >= 1 THEN [signal |-> "HOLD", confidence |-> 50]
    ELSE [signal |-> "HOLD", confidence |-> 30]

\* lines 389-394 raise TypeError when a growth figure compared with 0 is None
generate_signal_raise ==
    /\ sig_pc = "decide"
    /\ HoldRaises(eps_check, annual_growth)
    /\ sig_pc' = "raised"
    /\ UNCHANGED <<data, eps_check, annual_growth, ma_check, volume_check,
                   market_check, buy_criteria, buy_score, sell_reasons, sig_result>>

\* lines 389-434: hold criteria, decision, return
generate_signal_decide ==
    /\ sig_pc = "decide"
    /\ ~HoldRaises(eps_check, annual_growth)
    /\ LET hold_count == BoolInt(Get(ma_check, "above_50", FALSE))
                         + BoolInt(PositiveFundamentals(eps_check, annual_growth))
       IN  sig_result' = Some(Decision(sell_reasons, buy_score, hold_count))
    /\ sig_pc' = "done"
    /\ UNCHANGED <<data, eps_check, annual_growth, ma_check, volume_check,
                   market_check, buy_criteria, buy_score, sell_reasons>>

SigStep ==
    \/ fetch_data_fail
    \/ fetch_data_ok
    \/ check_eps_growth
    \/ check_annual_growth
    \/ calculate_moving_averages
    \/ check_volume_breakout
    \/ check_market_trend
    \/ generate_signal_score
    \/ generate_signal_raise
    \/ generate_signal_decide

(***************************************************************************)
(* Secondary fusion: technical signal + news sentiment / analyst text      *)
(***************************************************************************)
RsiDomain == {25, 50, 75}

PctChangeDomain == {-5, 0, 5}

\* bars in the frame of each fusion function, around its minimum
WeekLenDomain == {4, 5}

TrendLenDomain == {19, 20}

CombinedLenDomain == {49, 50}

\* headline scores (pos - neg word counts) of the fetched news items
ScoresDomain == {<<>>, <<1>>, <<-1>>, <<1, 0>>}

RECURSIVE SumSeq(_)
SumSeq(q) == IF q = <<>> THEN 0 ELSE q[1] + SumSeq(Tail(q))

\* get_news_signal: avg > 0.5 is BUY, avg < -0.5 is SELL, no headline is HOLD
NewsSignal(scores) ==
    IF scores = <<>> THEN "HOLD"
    ELSE IF 2 * SumSeq(scores) > Len(scores) THEN "BUY"
    ELSE IF 2 * SumSeq(scores) < -Len(scores) THEN "SELL"
    ELSE "HOLD"

\* the recommendation phrases the fusion code looks for in the lower-cased
\* analyst text; a text is modelled by the set of phrases it contains
AnalystPhrases == {"strong buy", "outperform", "hold", "neutral", "sell", "underperform"}

\* get_yahoo_analysis builds "PE: .. | 52W High: $.. | 52W Low: $.." or
\* "Data unavailable": numbers and fixed words, none of the phrases
YahooSummaryPhrases == {}

\* analyst texts handed to generate_combined_signal: up to two phrases
AnalystTexts == {t \in SUBSET AnalystPhrases : Cardinality(t) <= 2}

\* technical signal of analyze_stock_1week (MA crossover, then RSI)
TechSignal1Week(ma5, ma10, current_price, rsi) ==
    LET cross == IF ma5 # None /\ ma10 # None
                 THEN IF Val(ma5) > Val(ma10) /\ current_price > Val(ma5) THEN "BUY"
                      ELSE IF Val(ma5) < Val(ma10) /\ current_price < Val(ma5) THEN "SELL"
                      ELSE "HOLD"
                 ELSE "HOLD"
    IN  IF rsi # None
        THEN IF Val(rsi) < 30 THEN (IF cross # "SELL" THEN "BUY" ELSE cross)
             ELSE IF Val(rsi) > 70 THEN (IF cross # "BUY" THEN "SELL" ELSE cross)
             ELSE cross
        ELSE cross

\* the mutant lets the news decide on disagreement
Fuse1WeekNewsWins(tech_signal, news_signal) ==
    IF tech_signal = "BUY" /\ news_signal = "BUY"
    THEN [Final_Signal |-> "STRONG BUY", Confidence |-> "HIGH"]
    ELSE IF tech_signal = "SELL" /\ news_signal = "SELL"
    THEN [Final_Signal |-> "STRONG SELL", Confidence |-> "HIGH"]
    ELSE IF tech_signal = "BUY" /\ news_signal = "SELL"
    THEN [Final_Signal |-> "SELL", Confidence |-> "LOW"]
    ELSE IF tech_signal = "SELL" /\ news_signal = "BUY"
    THEN [Final_Signal |-> "BUY", Confidence |-> "LOW"]
    ELSE [Final_Signal |-> tech_signal, Confidence |-> "MEDIUM"]

\* bot_dashboard.py lines 364-381
Fuse1Week(tech_signal, news_signal) ==
    IF tech_signal = "BUY" /\ news_signal = "BUY"
    THEN [Final_Signal |-> "STRONG BUY", Confidence |-> "HIGH"]
    ELSE IF tech_signal = "SELL" /\ news_signal = "SELL"
    THEN [Final_Signal |-> "STRONG SELL", Confidence |-> "HIGH"]
    ELSE IF tech_signal = "BUY" /\ news_signal = "SELL"
    THEN [Final_Signal |-> "HOLD", Confidence |-> "LOW"]
    ELSE IF tech_signal = "SELL" /\ news_signal = "BUY"
    THEN [Final_Signal |-> "HOLD", Confidence |-> "LOW"]
    ELSE [Final_Signal |-> tech_signal, Confidence |-> "MEDIUM"]

\* the returned dict, without the display-only entries (week change, volume
\* ratio, reasons, news details), which do not enter the signal
AnalyzeStock1Week(n, ma5, ma10, current_price, rsi, news_signal) ==
    IF n < 5 THEN [fn |-> "analyze_stock_1week", Signal |-> "NO DATA"]
    ELSE LET tech_signal == TechSignal1Week(ma5, ma10, current_price, rsi)
             f == Fuse1Week(tech_signal, news_signal)
         IN  [fn |-> "analyze_stock_1week",
              Price |-> current_price,
              MA5 |-> ma5,
              MA10 |-> ma10,
              RSI |-> rsi,
              Tech_Signal |-> tech_signal,
              News_Signal |-> news_signal,
              Final_Signal |-> f.Final_Signal,
              Confidence |-> f.Confidence]

Has(text, phrase) == phrase \in text

\* bot_dashboard.py lines 484-493
FuseTrend(tech_signal, analyst_rec) ==
    IF tech_signal = "BUY"
    THEN IF Has(analyst_rec, "strong buy") \/ Has(analyst_rec, "outperform") THEN "STRONG BUY"
         ELSE IF Has(analyst_rec, "hold") \/ Has(analyst_rec, "neutral") THEN "HOLD"
         ELSE tech_signal
    ELSE IF tech_signal = "SELL"
    THEN IF ~Has(analyst_rec, "underperform") /\ ~Has(analyst_rec, "sell") THEN "HOLD"
         ELSE tech_signal
    ELSE tech_signal

AnalyzeTrend(n, pct_change, ma10_val, ma20_val, analyst_rec, news_signal) ==
    IF n < 20 THEN [fn |-> "analyze_trend", Signal |-> "NO DATA"]
    ELSE LET tech_signal ==
                 IF ma10_val = None \/ ma20_val = None THEN "HOLD"
                 ELSE IF pct_change > 2 /\ Val(ma10_val) > Val(ma20_val) THEN "BUY"
                 ELSE IF pct_change < -2 /\ Val(ma10_val) < Val(ma20_val) THEN "SELL"
                 ELSE "HOLD"
         IN  [fn |-> "analyze_trend",
              MA10 |-> ma10_val,
              MA20 |-> ma20_val,
              Pct |-> pct_change,
              Tech_Signal |-> tech_signal,
              Analyst |-> analyst_rec,
              Signal |-> FuseTrend(tech_signal, analyst_rec),
              News_Signal |-> news_signal]

\* investment_finder.py lines 241-262
FuseCombined(tech_signal, analyst_summary) ==
    IF tech_signal = "BUY"
    THEN IF Has(analyst_summary, "strong buy") \/ Has(analyst_summary, "outperform")
         THEN "STRONG BUY"
         ELSE IF Has(analyst_summary, "hold") \/ Has(analyst_summary, "neutral") THEN "HOLD"
         ELSE IF Has(analyst_summary, "sell") \/ Has(analyst_summary, "underperform") THEN "HOLD"
         ELSE tech_signal
    ELSE IF tech_signal = "SELL"
    THEN IF Has(analyst_summary, "sell") \/ Has(analyst_summary, "underperform")
         THEN "STRONG SELL"
         ELSE "HOLD"
    ELSE tech_signal

GenerateCombinedSignal(n, ma10, ma20, ma50, close, analyst_summary) ==
    IF n < 50 \/ ma10 = None \/ ma20 = None \/ ma50 = None
    THEN [fn |-> "generate_combined_signal", signal |-> "HOLD", tech_signal |-> "HOLD",
          analyst_rec |-> {}]
    ELSE LET tech_signal ==
                 IF Val(ma10) > Val(ma20) /\ close > Val(ma50) THEN "BUY"
                 ELSE IF Val(ma10) < Val(ma20) /\ close < Val(ma50) THEN "SELL"
                 ELSE "HOLD"
         IN  [fn |-> "generate_combined_signal",
              signal |-> FuseCombined(tech_signal, analyst_summary),
              tech_signal |-> tech_signal,
              analyst_rec |-> analyst_summary]

OptOf(S) == {None} \cup {Some(v) : v \in S}

analyze_stock_1week ==
    \E n \in WeekLenDomain, ma5 \in OptOf(MADomain), ma10 \in OptOf(MADomain),
       p \in PriceDomain, rsi \in OptOf(RsiDomain), scores \in ScoresDomain :
        fus' = Some(AnalyzeStock1Week(n, ma5, ma10, p, rsi, NewsSignal(scores)))

analyze_trend ==
    \E n \in TrendLenDomain, pct \in PctChangeDomain, ma10 \in OptOf(MADomain),
       ma20 \in OptOf(MADomain), scores \in ScoresDomain :
        fus' = Some(AnalyzeTrend(n, pct, ma10, ma20, YahooSummaryPhrases, NewsSignal(scores)))

generate_combined_signal ==
    \E n \in CombinedLenDomain, ma10 \in OptOf(MADomain), ma20 \in OptOf(MADomain),
       ma50 \in OptOf(MADomain), close \in PriceDomain, text \in AnalystTexts :
        fus' = Some(GenerateCombinedSignal(n, ma10, ma20, ma50, close, text))

FusStep ==
    \/ analyze_stock_1week
    \/ analyze_trend
    \/ generate_combined_signal

(***************************************************************************)
(* AutoTrader (src/auto_trader.py) over the trades table (src/database.py) *)
(***************************************************************************)
\* bounds of the model
MaxCap == 2

MaxTrades == 2

MaxLost == 1

MaxDay == 2

\* settings defaults and the row limit of get_today_trade_count
DefaultMinConfidence == 70

DefaultMaxPositionPct == 10

TradeQueryLimit == 1000

\* the auto-trade enabled items of the user's watchlist
Watchlist == <<"AAPL", "MSFT">>

Symbols == {Watchlist[i] : i \in DOMAIN Watchlist}

CapsDomain == [max_daily_trades : 1..MaxCap, max_daily_buys : 1..MaxCap,
               max_daily_sells : 1..MaxCap]

\* account.buying_power as reported by the broker
BuyingPowerDomain == {500, 10000}

\* price of get_latest_trade after a sell
QuoteDomain == {110}

\* the rows get_user_trades returns: the latest `limit` rows
UserTrades(ledger, limit) ==
    IF Len(ledger) > limit THEN SubSeq(ledger, Len(ledger) - limit + 1, Len(ledger))
    ELSE ledger

\* get_today_trade_count: the rows whose executed_at date equals `day`
TodayTradeCount(ledger, day) ==
    LET rows == UserTrades(ledger, TradeQueryLimit)
        todays == {i \in DOMAIN rows : rows[i].executed_at = day}
    IN  [total |-> Cardinality(todays),
         buys |-> Cardinality({i \in todays : rows[i].side = "BUY"}),
         sells |-> Cardinality({i \in todays : rows[i].side = "SELL"})]

\* the mutant compares with > instead of >=
CheckDailyLimitsStrict(action, counts, c) ==
    IF counts.total > c.max_daily_trades THEN FALSE
    ELSE IF action = "BUY" /\ counts.buys > c.max_daily_buys THEN FALSE
    ELSE IF action = "SELL" /\ counts.sells > c.max_daily_sells THEN FALSE
    ELSE TRUE

\* check_daily_limits, given the counts it has just read
CheckDailyLimits(action, counts, c) ==
    IF counts.total >= c.max_daily_trades THEN FALSE
    ELSE IF action = "BUY" /\ counts.buys >= c.max_daily_buys THEN FALSE
    ELSE IF action = "SELL" /\ counts.sells >= c.max_daily_sells THEN FALSE
    ELSE TRUE

\* the dict generate_signal returns for given check results, or the marker of
\* the TypeError it raises
GenerateSignal(eps, annual, ma, vol, mkt, rs) ==
    IF HoldRaises(eps, annual) THEN [raised |-> "TypeError"]
    ELSE LET bc == BuyCriteria(eps, annual, ma, vol, mkt)
             hold_count == BoolInt(Get(ma, "above_50", FALSE))
                           + BoolInt(PositiveFundamentals(eps, annual))
             d == Decision(SellReasons(ma), BuyScore(bc, ma), hold_count)
         IN  [signal |-> d.signal,
              confidence |-> d.confidence,
              reason |-> SellReasons(ma),
              analysis |-> [moving_averages |-> ma, relative_strength |-> rs,
                            volume |-> vol, market_trend |-> mkt],
              buy_criteria_met |-> bc]

\* what process_stock can get from StockAnalyzer(symbol).generate_signal():
\* ERROR, a TypeError, and one result of each other kind
TraderAnalyses ==
    LET d120 == Some([len |-> 201, close |-> 120])
        d90 == Some([len |-> 201, close |-> 90])
        eps30 == EpsGrowth(Some([cur |-> 130, prev |-> 100]), 0, 0)
        ann == AnnualGrowth(Some(<<100, 100, 100>>))
        up == MovingAverages(d120, Some(110), Some(95), Some(110), Some(95))
        down == MovingAverages(d90, Some(95), Some(110), Some(95), Some(110))
        brk == VolumeBreakout(d120, 140, 100)
        flat == VolumeBreakout(d120, 100, 100)
        bull == MarketTrend(Some([len |-> 126, price |-> 120, ma_50 |-> Some(110),
                                  ma_200 |-> None]))
        bear == MarketTrend(Some([len |-> 126, price |-> 100, ma_50 |-> Some(110),
                                  ma_200 |-> None]))
        rs == [rs_rating |-> None, meets_criteria |-> FALSE]
    IN  {ErrorResult,
         GenerateSignal(NoEps, NoAnnual, up, brk, bull, rs),
         GenerateSignal(eps30, ann, up, brk, bull, rs),
         GenerateSignal(eps30, ann, up, flat, bear, rs),
         GenerateSignal(eps30, ann, down, brk, bull, rs)}

\* the mutant leaves out the cap of the multiplier
PositionMultiplierUncapped(score) == Rat(score, 10)

\* position_multiplier = min(score / 10, 1.0)
PositionMultiplier(score) == Rat(Min(score, 10), 10)

\* the mutant gives nothing for the buy criteria
CriteriaPointsNone(criteria_met) == 0

\* if criteria_met >= 3: score += 2
CriteriaPoints(criteria_met) == IF criteria_met >= 3 THEN 2 ELSE 0

\* analyze_buying_strategy; position_pct is kept as a fraction
AnalyzeBuyingStrategy(analysis, min_confidence, max_position_pct) ==
    IF ~(analysis.signal \in {"STRONG BUY", "BUY"}
         /\ analysis.confidence >= min_confidence)
    THEN [should_buy |-> FALSE, quantity |-> 0]
    ELSE LET ma_data == analysis.analysis.moving_averages
             volume_data == analysis.analysis.volume
             rs_data == analysis.analysis.relative_strength
             market_data == analysis.analysis.market_trend
             uptrend == Get(market_data, "uptrend", None)
             score == 2
                      + (IF Get(ma_data, "golden_cross", FALSE) THEN 3 ELSE 0)
                      + (IF Get(ma_data, "above_50", FALSE) /\ Get(ma_data, "above_200", FALSE)
                         THEN 2 ELSE 0)
                      + (IF Get(volume_data, "breakout", FALSE) THEN 2 ELSE 0)
                      + (IF Get(rs_data, "meets_criteria", FALSE) THEN 1 ELSE 0)
                      + (IF uptrend # None /\ Val(uptrend) THEN 1 ELSE 0)
                      + CriteriaPoints(NumTrueOf(analysis.buy_criteria_met))
         IN  IF score >= 5
             THEN [should_buy |-> TRUE,
                   position_pct |-> Rat(max_position_pct * PositionMultiplier(score).num,
                                        PositionMultiplier(score).den),
                   score |-> score]
             ELSE [should_buy |-> FALSE, quantity |-> 0]

NoEffect == [order |-> None, record |-> None, raised |-> FALSE]

\* the call raised before an order was accepted; the except branch logs it
RaisedEffect == [order |-> None, record |-> None, raised |-> TRUE]

\* execute_buy: account = None when get_account raises; outcome tells how
\* submit_order and log_trade end.  Prices of the bracket are in cents.
ExecuteBuy(symbol, analysis, position_pct, account, outcome, now) ==
    LET price_data == analysis.analysis.moving_averages
        current_price == Get(price_data, "current_price", Some(0))
    IN  IF account = None THEN RaisedEffect
        ELSE IF ~Truthy(current_price) THEN NoEffect
        ELSE LET quantity == (Val(account) * position_pct.num)
                                 \div (position_pct.den * 100 * Val(current_price))
             IN  IF quantity < 1 THEN NoEffect
                 ELSE IF outcome = "submit_error" THEN RaisedEffect
                 ELSE [order |-> Some([symbol |-> symbol, side |-> "buy", qty |-> quantity,
                                       stop_loss |-> Val(current_price) * 92,
                                       take_profit |-> Val(current_price) * 110]),
                       raised |-> outcome = "log_error",
                       record |-> IF outcome = "log_error" THEN None
                                  ELSE Some([symbol |-> symbol, action |-> "OPEN",
                                             side |-> "BUY", quantity |-> quantity,
                                             price |-> Val(current_price),
                                             status |-> "executed",
                                             executed_at |-> now])]

\* execute_sell: quote = None when get_latest_trade raises (price 0 is logged)
ExecuteSell(symbol, quantity, quote, outcome, now) ==
    IF outcome = "submit_error" THEN RaisedEffect
    ELSE [order |-> Some([symbol |-> symbol, side |-> "sell", qty |-> quantity]),
          raised |-> outcome = "log_error",
          record |-> IF outcome = "log_error" THEN None
                     ELSE Some([symbol |-> symbol, action |-> "CLOSE",
                                side |-> "SELL", quantity |-> quantity,
                                price |-> IF quote = None THEN 0 ELSE Val(quote),
                                status |-> "executed",
                                executed_at |-> now])]

PortOutcomes == {"ok", "submit_error", "log_error"}

\* the broker accepts and fills the order, log_trade appends the row
Apply(symbol, eff) ==
    /\ trades' = IF eff.record # None THEN Append(trades, Val(eff.record)) ELSE trades
    /\ lost' = IF eff.order # None /\ eff.record = None THEN lost + 1 ELSE lost
    /\ IF eff.order # None
       THEN /\ submitted' =
                   IF Val(eff.order).side = "buy"
                   THEN [submitted EXCEPT !.buys = @ + 1]
                   ELSE [submitted EXCEPT !.sells = @ + 1]
            /\ positions' =
                   [positions EXCEPT ![symbol] =
                       IF Val(eff.order).side = "buy" THEN @ + Val(eff.order).qty
                       ELSE IF @ < Val(eff.order).qty THEN 0
                       ELSE @ - Val(eff.order).qty]
       ELSE UNCHANGED <<submitted, positions>>

Room == Len(trades) < MaxTrades /\ lost < MaxLost

\* what process_stock decides to execute for one analysis result and the
\* quantity that get_position reported
PlannedTrade(result, current_position, counts, limits) ==
    IF result.signal \in {"STRONG BUY", "BUY"}
    THEN IF current_position = 0
            /\ AnalyzeBuyingStrategy(result, DefaultMinConfidence,
                                     DefaultMaxPositionPct).should_buy
            /\ CheckDailyLimits("BUY", counts, limits)
         THEN "buy" ELSE "none"
    ELSE IF result.signal = "SELL"
    THEN IF current_position > 0 /\ CheckDailyLimits("SELL", counts, limits)
         THEN "sell" ELSE "none"
    ELSE "none"

\* how an iteration of the loop ended: failed when generate_signal raised
\* or returned ERROR, or when execute_buy or execute_sell logged a failure
Ended(symbol, failed, reported) ==
    Some([symbol |-> symbol, failed |-> failed, reported |-> reported])

\* the body of process_stock for one analysis result
ProcessResult(symbol, result) ==
    \E position_ok \in BOOLEAN :
        LET current_position == IF position_ok THEN positions[symbol] ELSE 0
            counts == TodayTradeCount(trades, today)
            planned == PlannedTrade(result, current_position, counts, caps)
        IN  IF planned = "buy"
            THEN LET strategy == AnalyzeBuyingStrategy(result, DefaultMinConfidence,
                                                       DefaultMaxPositionPct)
                 IN  /\ Room
                     /\ \E account \in OptOf(BuyingPowerDomain), outcome \in PortOutcomes :
                            LET eff == ExecuteBuy(symbol, result, strategy.position_pct,
                                                  account, outcome, utc_date)
                            IN  /\ Apply(symbol, eff)
                                /\ tr_last' = Ended(symbol, eff.raised,
                                                    Some(current_position))
            ELSE IF planned = "sell"
            THEN /\ Room
                 /\ \E quote \in OptOf(QuoteDomain), outcome \in PortOutcomes :
                        LET eff == ExecuteSell(symbol, current_position, quote,
                                               outcome, utc_date)
                        IN  /\ Apply(symbol, eff)
                            /\ tr_last' = Ended(symbol, eff.raised, Some(current_position))
            ELSE /\ tr_last' = Ended(symbol, FALSE, Some(current_position))
                 /\ UNCHANGED <<trades, submitted, positions, lost>>

\* check_and_execute_trades up to the loop: returns at once when the day's
\* total has reached max_daily_trades
check_and_execute_trades ==
    /\ tr_pc = "idle"
    /\ IF TodayTradeCount(trades, today).total >= caps.max_daily_trades
       THEN UNCHANGED <<tr_pc, tr_idx>>
       ELSE tr_pc' = "loop" /\ tr_idx' = 1
    /\ last_check' = None
    /\ tr_last' = None
    /\ UNCHANGED <<caps, trades, positions, lost, submitted, today, utc_date, tz>>

\* one iteration of the loop: process_stock(symbol) inside try/except
process_stock ==
    /\ tr_pc = "loop"
    /\ \E result \in TraderAnalyses :
           IF "raised" \in DOMAIN result \/ result.signal = "ERROR"
           THEN /\ tr_last' = Ended(Watchlist[tr_idx], TRUE, None)
                /\ UNCHANGED <<trades, submitted, positions, lost>>
           ELSE ProcessResult(Watchlist[tr_idx], result)
    /\ IF tr_idx < Len(Watchlist)
       THEN tr_idx' = tr_idx + 1 /\ UNCHANGED tr_pc
       ELSE tr_idx' = 0 /\ tr_pc' = "idle"
    /\ last_check' = None
    /\ UNCHANGED <<caps, today, utc_date, tz>>

\* what the guard saw and answered, and its answer to the same question in
\* the call just before, if there was one
CallRecord(action, counts, allowed) ==
    [action |-> action,
     today |-> today,
     n_trades |-> Len(trades),
     counts |-> counts,
     allowed |-> allowed,
     prior |-> IF last_check # None /\ Val(last_check).action = action
               THEN Some(Val(last_check).allowed) ELSE None]

\* the mutant keeps a counter of its own: it adds the plans it has just
\* allowed to the counts instead of reading the ledger again
check_daily_limits_counting(action) ==
    /\ LET read == TodayTradeCount(trades, today)
           counts == IF last_check # None /\ Val(last_check).allowed
                     THEN [Val(last_check).counts EXCEPT !.total = @ + 1]
                     ELSE read
       IN  last_check' = Some(CallRecord(action, counts,
                                         CheckDailyLimits(action, counts, caps)))
    /\ tr_last' = None
    /\ UNCHANGED <<tr_pc, tr_idx, caps, trades, positions, lost, submitted,
                   today, utc_date, tz>>

\* a stand-alone call of check_daily_limits(action)
check_daily_limits(action) ==
    /\ LET counts == TodayTradeCount(trades, today)
       IN  last_check' = Some(CallRecord(action, counts,
                                         CheckDailyLimits(action, counts, caps)))
    /\ tr_last' = None
    /\ UNCHANGED <<tr_pc, tr_idx, caps, trades, positions, lost, submitted,
                   today, utc_date, tz>>

\* midnight on a host whose clock is UTC
MidnightUtcHost ==
    /\ tz = "utc"
    /\ today < MaxDay
    /\ today' = today + 1
    /\ utc_date' = utc_date + 1
    /\ submitted' = [buys |-> 0, sells |-> 0]
    /\ last_check' = None
    /\ tr_last' = None
    /\ UNCHANGED <<tr_pc, tr_idx, caps, trades, positions, lost, tz>>

\* UTC midnight comes first on a host west of Greenwich
UtcMidnight ==
    /\ tz = "west"
    /\ utc_date = today
    /\ utc_date < MaxDay
    /\ utc_date' = utc_date + 1
    /\ last_check' = None
    /\ tr_last' = None
    /\ UNCHANGED <<tr_pc, tr_idx, caps, trades, positions, lost, submitted,
                   today, tz>>

\* midnight of the host's own clock
LocalMidnight ==
    /\ tz = "west"
    /\ today < utc_date
    /\ today < MaxDay
    /\ today' = today + 1
    /\ submitted' = [buys |-> 0, sells |-> 0]
    /\ last_check' = None
    /\ tr_last' = None
    /\ UNCHANGED <<tr_pc, tr_idx, caps, trades, positions, lost, utc_date, tz>>

TrInit ==
    /\ tr_pc = "idle"
    /\ tr_idx = 0
    /\ caps \in CapsDomain
    /\ trades = <<>>
    /\ positions = [s \in Symbols |-> 0]
    /\ lost = 0
    /\ submitted = [buys |-> 0, sells |-> 0]
    /\ today = 1
    /\ utc_date = 1
    /\ tz \in {"utc", "west"}
    /\ last_check = None
    /\ tr_last = None

\* the other parts start from one fixed trader state
TrIdle ==
    /\ TrInit
    /\ caps = [max_daily_trades |-> MaxCap, max_daily_buys |-> MaxCap,
               max_daily_sells |-> MaxCap]
    /\ tz = "utc"

(***************************************************************************)
(* analyze_pnl (src/bot_dashboard.py): FIFO pairing of a trade log         *)
(***************************************************************************)
\* bound of the model: rows in the log
MaxRows == 4

\* money is counted in units of 0.00001 dollar, so that round(x, 4) and
\* round(x, 2) have something to round
Scale == 100000

Dollars(n) == n * Scale

\* Python's round(): to the nearest multiple of `unit`, ties to the even one
RoundHalfEven(x, unit) ==
    LET q == x \div unit
        r == x - q * unit
    IN  IF 2 * r < unit THEN q * unit
        ELSE IF 2 * r > unit THEN (q + 1) * unit
        ELSE IF q % 2 = 0 THEN q * unit
        ELSE (q + 1) * unit

\* round(x, 4) and round(x, 2) of an amount of dollars
Round4(x) == RoundHalfEven(x, Scale \div 10000)

Round2(x) == RoundHalfEven(x, Scale \div 100)

\* str.upper() on the strings of the model
Upper(str) ==
    CASE str = "msft" -> "MSFT"
      [] str = "buy" -> "BUY"
      [] str = "sell" -> "SELL"
      [] str = "open" -> "OPEN"
      [] str = "executed" -> "EXECUTED"
      [] OTHER -> str

PnlSymbols == {"AAPL", "MSFT"}

\* prices and quantities of the rows; a price of None does not parse as a
\* float, a quantity of None is NaN or an absent column
PnlPriceDomain == {Dollars(100), Dollars(110), Dollars(100) + 4}

PnlQtyDomain == {4, 6, 10}

\* DatabaseManager.log_trade: the record of the trades table, with the symbol
\* in upper case and the status always 'executed'
log_trade(symbol, action, side, quantity, price) ==
    [symbol |-> Upper(symbol), action |-> action, side |-> side,
     quantity |-> quantity, price |-> price, status |-> "executed"]

\* the columns of a ledger written through log_trade
LedgerColumns == {"timestamp", "symbol", "action", "side", "qty", "price",
                  "order_id", "status", "notes"}

\* action_col: the first of action, side, order_type that is a column
ActionCol(columns) ==
    IF "action" \in columns THEN "action"
    ELSE IF "side" \in columns THEN "side"
    ELSE IF "order_type" \in columns THEN "order_type"
    ELSE "none"

\* what the loop reads of a record of the ledger: row[action_col], status,
\* price and quantity
ReadRow(t) ==
    [symbol |-> t.symbol,
     action |-> IF ActionCol(LedgerColumns) = "action" THEN t.action ELSE t.side,
     status |-> t.status,
     price |-> Some(t.price), qty |-> Some(t.quantity)]

\* the records of AutoTrader.execute_buy and AutoTrader.execute_sell
LoggedBuy == log_trade("AAPL", "OPEN", "BUY", 10, Dollars(100))

LoggedSell == log_trade("AAPL", "CLOSE", "SELL", 6, Dollars(110))

\* the rows a log can hold, as the loop reads them
PnlRows ==
    {ReadRow(LoggedBuy), ReadRow(LoggedSell)} \cup
    [symbol : {"AAPL"}, action : {"BUY", "SELL"}, status : {"OPEN"},
     price : OptOf(PnlPriceDomain) \ {None}, qty : OptOf(PnlQtyDomain) \ {None}]
    \cup {[symbol |-> "AAPL", action |-> "BUY", status |-> "EXECUTED",
           price |-> Some(Dollars(100)), qty |-> Some(10)],
          [symbol |-> "AAPL", action |-> "SELL", status |-> "EXECUTED",
           price |-> Some(Dollars(110)), qty |-> None],
          [symbol |-> "AAPL", action |-> "SELL", status |-> "EXECUTED",
           price |-> None, qty |-> Some(6)],
          [symbol |-> "msft", action |-> "buy", status |-> "open",
           price |-> Some(Dollars(100)), qty |-> Some(10)],
          [symbol |-> "msft", action |-> "sell", status |-> "executed",
           price |-> Some(Dollars(110)), qty |-> Some(6)]}

\* the mutant takes the whole lot whatever the sell still needs
MatchedQtyWholeLot(lot_qty, sell_qty) == lot_qty

\* matched_qty of one step of the while loop
MatchedQty(lot_qty, sell_qty) == Min(lot_qty, sell_qty)

\* the mutant writes the size of the lot into the pair
PairWholeLot(sym, buy_trade, sell_price, matched_qty) ==
    [symbol |-> sym,
     buy_price |-> Round4(buy_trade.price),
     sell_price |-> Round4(sell_price),
     qty |-> buy_trade.qty,
     pnl |-> Round2((sell_price - buy_trade.price) * matched_qty)]

\* the dict appended to pairs
Pair(sym, buy_trade, sell_price, matched_qty) ==
    [symbol |-> sym,
     buy_price |-> Round4(buy_trade.price),
     sell_price |-> Round4(sell_price),
     qty |-> matched_qty,
     pnl |-> Round2((sell_price - buy_trade.price) * matched_qty)]

\* the while loop of one SELL row: the lots left and the pairs appended
RECURSIVE MatchSell(_, _, _, _)
MatchSell(sym, lots, sell_qty, sell_price) ==
    IF ~(sell_qty > 0 /\ lots # <<>>) THEN [lots |-> lots, pairs |-> <<>>]
    ELSE LET buy_trade == Head(lots)
             matched_qty == MatchedQty(buy_trade.qty, sell_qty)
             pair == Pair(sym, buy_trade, sell_price, matched_qty)
             left == buy_trade.qty - matched_qty
         IN  IF left <= 0
             THEN LET rest == MatchSell(sym, Tail(lots), sell_qty - matched_qty,
                                        sell_price)
                  IN  [lots |-> rest.lots, pairs |-> <<pair>> \o rest.pairs]
             ELSE [lots |-> <<[buy_trade EXCEPT !.qty = left]>> \o Tail(lots),
                   pairs |-> <<pair>>]

\* the quantities of the log itself: of all BUY rows, of the rows that became
\* lots, and of all SELL rows of the symbol
Tallied(t, r) ==
    LET sym == Upper(r.symbol)
        qty_val == IF r.qty # None THEN Val(r.qty) ELSE 1
        buy == Upper(r.action) = "BUY"
        lot == buy /\ r.price # None /\ Upper(r.status) = "OPEN"
        sell == Upper(r.action) = "SELL"
    IN  [t EXCEPT ![sym] = [buys |-> @.buys + (IF buy THEN qty_val ELSE 0),
                            lots |-> @.lots + (IF lot THEN qty_val ELSE 0),
                            sells |-> @.sells + (IF sell THEN qty_val ELSE 0)]]

\* one iteration of `for _, row in df.iterrows()`
analyze_pnl_row ==
    /\ pnl_pc = "rows"
    /\ n_rows < MaxRows
    /\ \E r \in PnlRows :
           LET sym == Upper(r.symbol)
               status == Upper(r.status)
               action == Upper(r.action)
               qty_val == IF r.qty # None THEN Val(r.qty) ELSE 1
           IN  /\ row' = Some(r)
               /\ tally' = Tallied(tally, r)
               /\ IF r.price = None
                  THEN UNCHANGED <<open_buys, pairs>>
                  ELSE IF action = "BUY" /\ status = "OPEN"
                  THEN /\ open_buys' =
                              [open_buys EXCEPT ![sym] =
                                  Append(@, [price |-> Val(r.price), qty |-> qty_val])]
                       /\ UNCHANGED pairs
                  ELSE IF action = "SELL" /\ open_buys[sym] # <<>>
                  THEN LET m == MatchSell(sym, open_buys[sym], qty_val, Val(r.price))
                       IN  /\ open_buys' = [open_buys EXCEPT ![sym] = m.lots]
                           /\ pairs' = pairs \o m.pairs
                  ELSE UNCHANGED <<open_buys, pairs>>
    /\ n_rows' = n_rows + 1
    /\ UNCHANGED <<pnl_pc, pnl_result>>

RECURSIVE SumPnl(_)
SumPnl(ps) == IF ps = <<>> THEN 0 ELSE Head(ps).pnl + SumPnl(Tail(ps))

\* the mutant cuts the percentage off instead of rounding it
WinRateTruncated(wins, paired_count) ==
    IF paired_count # 0 THEN (wins * 100 * 100) \div paired_count ELSE 0

\* round((wins / paired_count) * 100, 2) if paired_count else 0.0, in
\* hundredths of a percent
WinRate(wins, paired_count) ==
    IF paired_count # 0
    THEN RoundHalfEven(wins * 100 * 100, paired_count) \div paired_count
    ELSE 0

\* the end of the log: the summary is computed and returned; win_rate is in
\* hundredths of a percent
analyze_pnl_return ==
    /\ pnl_pc = "rows"
    /\ LET paired_count == Len(pairs)
           wins == Cardinality({i \in DOMAIN pairs : pairs[i].pnl > 0})
       IN  pnl_result' =
               Some([realized_pnl |-> Round2(SumPnl(pairs)),
                     win_rate |-> WinRate(wins, paired_count),
                     paired_trades |-> paired_count,
                     pair_details |-> pairs])
    /\ pnl_pc' = "done"
    /\ UNCHANGED <<n_rows, row, open_buys, pairs, tally>>

PnlInit ==
    /\ pnl_pc = "rows"
    /\ n_rows = 0
    /\ row = None
    /\ open_buys = [sym \in PnlSymbols |-> <<>>]
    /\ pairs = <<>>
    /\ pnl_result = None
    /\ tally = [sym \in PnlSymbols |-> [buys |-> 0, lots |-> 0, sells |-> 0]]

(***************************************************************************)
(* calculate_position_size (src/bot_dashboard.py): ATR-risk sizing         *)
(***************************************************************************)
\* the window of the ATR and the least number of daily bars
AtrWindow == 14

MinAtrBars == 15

\* daily bars: `len` equal bars, the last one replaced by `last`
Bars(len, base, last) == [i \in 1..len |-> IF i = len THEN last ELSE base]

FlatBar == [high |-> 100, low |-> 100, close |-> 100]

RangeBar == [high |-> 101, low |-> 99, close |-> 100]

GapBar == [high |-> 110, low |-> 108, close |-> 109]

\* what get_bars can return; None when the call raises
SzBarsDomain ==
    {None}
    \cup {Some(Bars(len, FlatBar, FlatBar)) : len \in {0, MinAtrBars}}
    \cup {Some(Bars(len, RangeBar, last)) :
              len \in {MinAtrBars - 1, MinAtrBars, MinAtrBars + 1},
              last \in {RangeBar, GapBar}}

\* account.equity in dollars; None when get_account raises
SzEquityDomain == {None, Some(-500), Some(0), Some(1000), Some(100000)}

SzEntryDomain == {0, 100}

SzMultiplierDomain == {1, 2}

\* risk_percent in hundredths of a percent: 100 is 0.01
SzRiskDomain == {0, 50, 100, 200}

RiskScale == 10000

Max(a, b) == IF a >= b THEN a ELSE b

\* the true range of bar i: the first bar has no previous close
TrueRange(bars, i) ==
    IF i = 1 THEN bars[1].high - bars[1].low
    ELSE Max(bars[i].high - bars[i].low,
             Max(Abs(bars[i].high - bars[i - 1].close),
                 Abs(bars[i].low - bars[i - 1].close)))

RECURSIVE SumTrueRange(_, _, _)
SumTrueRange(bars, from, to) ==
    IF from > to THEN 0 ELSE TrueRange(bars, to) + SumTrueRange(bars, from, to - 1)

\* atr.iloc[-1]: the mean of the last 14 true ranges
Atr(bars) == Rat(SumTrueRange(bars, Len(bars) - AtrWindow + 1, Len(bars)), AtrWindow)

\* the mutant takes what is left of a 2 percent allowance
RiskCapRemainder(portfolio_equity, risk_percent) ==
    portfolio_equity * (200 - risk_percent)

\* risk_cap = portfolio_equity * risk_percent, in dollars times RiskScale
RiskCap(portfolio_equity, risk_percent) == portfolio_equity * risk_percent

\* the mutant rounds the quotient up
IntOfUp(n, d) == (n + d - 1) \div d

\* int(n / d) for d > 0: the quotient cut off towards zero
IntOf(n, d) == IF n >= 0 THEN n \div d ELSE -((-n) \div d)

\* calculate_position_size; api_ok is `api is not None`
CalculatePositionSize(entry_price, api_ok, account, bars, risk_percent, multiplier) ==
    IF ~api_ok THEN 0
    ELSE IF account = None THEN 0
    ELSE IF Val(account) <= 0 \/ entry_price <= 0 THEN 0
    ELSE IF bars = None THEN 0
    ELSE IF Len(Val(bars)) = 0 \/ Len(Val(bars)) < MinAtrBars THEN 0
    ELSE LET atr_val == Atr(Val(bars))
             per_share_risk == Rat(atr_val.num * multiplier, atr_val.den)
         IN  IF atr_val.num <= 0 THEN 0
             ELSE IF per_share_risk.num <= 0 THEN 0
             ELSE Max(IntOf(RiskCap(Val(account), risk_percent) * per_share_risk.den,
                            RiskScale * per_share_risk.num),
                      0)

\* one call with the risk_percent the caller passes
calculate_position_size ==
    /\ \E risk_percent \in SzRiskDomain :
           sz_call' = Some([risk_percent |-> risk_percent,
                            qty |-> CalculatePositionSize(sz_env.entry_price,
                                        sz_env.api_ok, sz_env.account, sz_env.bars,
                                        risk_percent, sz_env.multiplier)])
    /\ sz_prev' = sz_call
    /\ UNCHANGED sz_env

\* the mutant submits whatever quantity the sizing returned
DashboardRejectsNothing(qty_to_trade) == FALSE

\* if qty_to_trade <= 0: warn and skip the buy
DashboardRejects(qty_to_trade) == qty_to_trade <= 0

\* the buy branch of process_stock of the dashboard for a BUY signal and no
\* position: the order it submits, if any; entry_price in dollars, the two
\* prices of the bracket in cents
DashboardBuy(entry_price, api_ok, account, bars) ==
    LET qty_to_trade == CalculatePositionSize(entry_price, api_ok, account, bars, 100, 2)
    IN  IF DashboardRejects(qty_to_trade) THEN [order |-> None, warned |-> TRUE]
        ELSE [order |-> IF api_ok
                        THEN Some([qty |-> qty_to_trade, side |-> "buy",
                                   take_profit |-> entry_price * 104,
                                   stop_loss |-> entry_price * 98])
                        ELSE None,
              warned |-> FALSE]

SzInit ==
    /\ sz_env \in [entry_price : SzEntryDomain, api_ok : BOOLEAN,
                   account : SzEquityDomain, bars : SzBarsDomain,
                   multiplier : SzMultiplierDomain]
    /\ sz_call = None
    /\ sz_prev = None

\* the other parts start from one fixed environment
SzIdle ==
    /\ SzInit
    /\ sz_env = [entry_price |-> 100, api_ok |-> TRUE, account |-> Some(100000),
                 bars |-> Some(Bars(MinAtrBars, RangeBar, RangeBar)), multiplier |-> 2]

(***************************************************************************)
(* AutoTrader: from a signal to the size of the buy order                  *)
(***************************************************************************)
\* the sliders of the settings page: 50..95 and 5..20
MinConfidenceDomain == {50, DefaultMinConfidence, 95}

MaxPositionPctDomain == {5, DefaultMaxPositionPct, 20}

\* results of generate_signal over combinations of its five checks and the
\* relative-strength entry; the results that raise or report ERROR never
\* reach analyze_buying_strategy
StrategyAnalyses ==
    LET d120 == Some([len |-> 201, close |-> 120])
        d90 == Some([len |-> 201, close |-> 90])
        epss == {EpsGrowth(Some([cur |-> 130, prev |-> 100]), 0, 0),
                 EpsGrowth(Some([cur |-> 100, prev |-> 100]), 0, 0)}
        anns == {AnnualGrowth(Some(<<100, 100, 100>>)),
                 AnnualGrowth(Some(<<130, 100, 80>>))}
        mas == {MovingAverages(d120, Some(110), Some(95), Some(110), Some(95)),
                MovingAverages(d120, Some(110), Some(95), Some(95), Some(110)),
                MovingAverages(d90, Some(95), Some(110), Some(95), Some(110)),
                MovingAverages(d120, Some(120), Some(95), Some(120), Some(95))}
        vols == {VolumeBreakout(d120, 140, 100), VolumeBreakout(d120, 100, 100)}
        mkts == {MarketTrend(Some([len |-> 126, price |-> 120, ma_50 |-> Some(110),
                                   ma_200 |-> None])),
                 MarketTrend(Some([len |-> 126, price |-> 100, ma_50 |-> Some(110),
                                   ma_200 |-> None])),
                 MarketTrend(None)}
        rss == {[rs_rating |-> None, meets_criteria |-> FALSE],
                [rs_rating |-> Some(85), meets_criteria |-> TRUE]}
    IN  {GenerateSignal(eps, ann, ma, vol, mkt, rs) :
             eps \in epss, ann \in anns, ma \in mas, vol \in vols, mkt \in mkts,
             rs \in rss}

StInit ==
    /\ st_in \in [analysis : StrategyAnalyses, min_confidence : MinConfidenceDomain,
                  max_position_pct : MaxPositionPctDomain]
    /\ st_strategy = None
    /\ st_buy = None

\* the other parts start from one fixed input
StIdle ==
    /\ StInit
    /\ st_in.min_confidence = DefaultMinConfidence
    /\ st_in.max_position_pct = DefaultMaxPositionPct
    /\ st_in.analysis = CHOOSE a \in StrategyAnalyses : a.signal = "HOLD"

\* strategy = self.analyze_buying_strategy(symbol, result)
analyze_buying_strategy ==
    /\ st_strategy = None
    /\ st_strategy' = Some(AnalyzeBuyingStrategy(st_in.analysis, st_in.min_confidence,
                                                 st_in.max_position_pct))
    /\ UNCHANGED <<st_in, st_buy>>

\* self.execute_buy(symbol, result, strategy['position_pct'])
execute_buy ==
    /\ st_strategy # None
    /\ Val(st_strategy).should_buy
    /\ st_buy = None
    /\ \E account \in OptOf(BuyingPowerDomain), outcome \in PortOutcomes :
           st_buy' = Some([account |-> account,
                           outcome |-> outcome,
                           effect |-> ExecuteBuy("AAPL", st_in.analysis,
                                                 Val(st_strategy).position_pct,
                                                 account, outcome, 1)])
    /\ UNCHANGED <<st_in, st_strategy>>

(***************************************************************************)
(* Simulator (src/auto_sim_bot.py)                                         *)
(***************************************************************************)
\* bound of the model: rows of the trade log
MaxSimLog == 2

WATCHLIST == <<"AAPL", "MSFT">>

SimSymbols == {WATCHLIST[i] : i \in DOMAIN WATCHLIST}

QTY == 1

\* SL_PCT = 0.02 and TP_PCT = 0.05, in percent
SL_PCT == 2

TP_PCT == 5

\* starting cash, in cents
StartCash == 100000 * 100

\* max(MA_LONG, RSI_WIN, VOL_WIN) + 1 bars are needed
MinSimBars == 21

\* the latest close, in cents
SimPriceDomain == {9500, 9800, 10000, 10500}

\* what get_bars can give: it raises, or returns so many bars
SimBarsDomain ==
    {[raised |-> TRUE, len |-> 0]}
    \cup {[raised |-> FALSE, len |-> n] : n \in {0, MinSimBars - 1, MinSimBars}}

\* the latest row of the bars; None stands for NaN
SimLatestDomain ==
    {[MA_S |-> Some(2), MA_L |-> Some(1), RSI |-> Some(50), volume |-> 2, VOLAVG |-> Some(1)],
     [MA_S |-> Some(2), MA_L |-> Some(1), RSI |-> Some(75), volume |-> 2, VOLAVG |-> Some(1)],
     [MA_S |-> Some(1), MA_L |-> Some(2), RSI |-> Some(50), volume |-> 2, VOLAVG |-> Some(1)],
     [MA_S |-> Some(1), MA_L |-> Some(2), RSI |-> Some(50), volume |-> 1, VOLAVG |-> Some(1)],
     [MA_S |-> Some(1), MA_L |-> Some(2), RSI |-> None, volume |-> 2, VOLAVG |-> Some(1)]}

\* Simulator.signal on bars that are not empty
Signal(latest) ==
    IF latest.MA_S = None \/ latest.MA_L = None \/ latest.RSI = None
       \/ latest.VOLAVG = None
    THEN "HOLD"
    ELSE LET bullish == Val(latest.MA_S) > Val(latest.MA_L) /\ Val(latest.RSI) < 70
                        /\ latest.volume > Val(latest.VOLAVG)
             bearish == Val(latest.MA_S) < Val(latest.MA_L) /\ Val(latest.RSI) > 30
                        /\ latest.volume > Val(latest.VOLAVG)
         IN  IF bullish THEN "BUY" ELSE IF bearish THEN "SELL" ELSE "HOLD"

\* price * pct for a percentage
PctOf(price, pct) == (price * pct) \div 100

\* the state the methods of the Simulator work on, and whether one raised
SimState == [positions |-> sim_positions, cash |-> sim_cash,
             trade_log |-> sim_trade_log, raised |-> FALSE]

\* _log_trade: the row is appended to trade_log, then written to the CSV
\* file; csv_ok tells whether that write succeeds
LogTrade(st, symbol, action, side, qty, price, note, csv_ok) ==
    [st EXCEPT !.trade_log = Append(@, [symbol |-> symbol, action |-> action,
                                        side |-> side, qty |-> qty, price |-> price,
                                        cash_after |-> st.cash, note |-> note]),
               !.raised = ~csv_ok]

\* the mutant puts the stop of a long position above its entry
LongPositionStopAbove(price) ==
    [side |-> "LONG", qty |-> QTY, entry |-> price,
     stop |-> price + PctOf(price, SL_PCT),
     take |-> price + PctOf(price, TP_PCT)]

LongPosition(price) ==
    [side |-> "LONG", qty |-> QTY, entry |-> price,
     stop |-> price - PctOf(price, SL_PCT),
     take |-> price + PctOf(price, TP_PCT)]

ShortPosition(price) ==
    [side |-> "SHORT", qty |-> QTY, entry |-> price,
     stop |-> price + PctOf(price, SL_PCT),
     take |-> price - PctOf(price, TP_PCT)]

\* the mutant finds no symbol in the store
InStoreNever(st, symbol) == FALSE

\* symbol in self.positions
InStore(st, symbol) == st.positions[symbol] # None

EnterLong(st, symbol, price, csv_ok) ==
    IF InStore(st, symbol) THEN st
    ELSE LET cost == price * QTY
         IN  IF st.cash < cost
             THEN LogTrade(st, symbol, "REJECT", "LONG", 0, price,
                           [text |-> "Insufficient cash"], csv_ok)
             ELSE LogTrade([st EXCEPT !.cash = @ - cost,
                                      !.positions[symbol] = Some(LongPosition(price))],
                           symbol, "OPEN", "LONG", QTY, price,
                           [text |-> "Enter long"], csv_ok)

EnterShort(st, symbol, price, csv_ok) ==
    IF InStore(st, symbol) THEN st
    ELSE LogTrade([st EXCEPT !.positions[symbol] = Some(ShortPosition(price))],
                  symbol, "OPEN", "SHORT", QTY, price, [text |-> "Enter short"], csv_ok)

\* the mutant credits the PnL alone when a long position is closed
CreditPnlOnly(pos, price, pnl) == pnl

\* what exit_position adds to cash: the proceeds of a long position, the
\* PnL of a short one
Credit(pos, price, pnl) == IF pos.side = "LONG" THEN price * pos.qty ELSE pnl

\* exit_position: cash first, then the log, then the position is deleted
ExitPosition(st, symbol, price, note, csv_ok) ==
    IF st.positions[symbol] = None THEN st
    ELSE LET pos == Val(st.positions[symbol])
             pnl == IF pos.side = "LONG" THEN (price - pos.entry) * pos.qty
                    ELSE (pos.entry - price) * pos.qty
             paid == [st EXCEPT !.cash = @ + Credit(pos, price, pnl)]
             logged == LogTrade(paid, symbol, "CLOSE", pos.side, pos.qty, price,
                                [text |-> note, pnl |-> pnl], csv_ok)
         IN  IF logged.raised THEN logged
             ELSE [logged EXCEPT !.positions[symbol] = None]

\* the mutant lets a long position run until the price is below the stop
ExitReasonStrict(pos, price) ==
    IF pos.side = "LONG"
    THEN IF price < pos.stop THEN "Stop-loss hit"
         ELSE IF price >= pos.take THEN "Take-profit hit"
         ELSE "none"
    ELSE IF price >= pos.stop THEN "Stop-loss hit"
         ELSE IF price <= pos.take THEN "Take-profit hit"
         ELSE "none"

\* the branch manage_exits takes for an open position
ExitReason(pos, price) ==
    IF pos.side = "LONG"
    THEN IF price <= pos.stop THEN "Stop-loss hit"
         ELSE IF price >= pos.take THEN "Take-profit hit"
         ELSE "none"
    ELSE IF price >= pos.stop THEN "Stop-loss hit"
         ELSE IF price <= pos.take THEN "Take-profit hit"
         ELSE "none"

ManageExits(st, symbol, price, csv_ok) ==
    IF st.positions[symbol] = None THEN st
    ELSE LET reason == ExitReason(Val(st.positions[symbol]), price)
         IN  IF reason = "none" THEN st
             ELSE ExitPosition(st, symbol, price, reason, csv_ok)

\* the three fields of the state are stored back
SimStore(st) ==
    /\ Len(st.trade_log) <= MaxSimLog
    /\ sim_positions' = st.positions
    /\ sim_cash' = st.cash
    /\ sim_trade_log' = st.trade_log

\* the for loop goes to the next symbol, or leaves for mark_equity
SimNextSymbol ==
    /\ sim_cur' = None
    /\ IF sim_idx < Len(WATCHLIST)
       THEN sim_idx' = sim_idx + 1 /\ sim_pc' = "exits"
       ELSE sim_idx' = 0 /\ sim_pc' = "mark"

\* Position.unrealized
Unrealized(pos, price) ==
    IF pos.side = "LONG" THEN (price - pos.entry) * pos.qty
    ELSE (pos.entry - price) * pos.qty

RECURSIVE UnrealizedTotal(_, _, _)
\* the sum of the unrealized PnL of the positions that have a price
UnrealizedTotal(held, prices, i) ==
    IF i = 0 THEN 0
    ELSE LET s == WATCHLIST[i]
         IN  UnrealizedTotal(held, prices, i - 1)
             + (IF held[s] # None /\ prices[s] # None
                THEN Unrealized(Val(held[s]), Val(prices[s])) ELSE 0)

RECURSIVE PositionsValue(_, _, _)
PositionsValue(held, prices, i) ==
    IF i = 0 THEN 0
    ELSE LET s == WATCHLIST[i]
         IN  PositionsValue(held, prices, i - 1)
             + (IF held[s] # None /\ prices[s] # None
                THEN LET pos == Val(held[s])
                     IN  Unrealized(pos, Val(prices[s]))
                         + (IF pos.side = "LONG" THEN pos.entry * pos.qty ELSE 0)
                ELSE 0)

\* the body of the for loop of run up to and with manage_exits
sim_exits ==
    /\ sim_pc = "exits"
    /\ LET symbol == WATCHLIST[sim_idx]
       IN  \E bars \in SimBarsDomain :
             IF bars.raised
             THEN /\ sim_caught' = TRUE
                  /\ SimNextSymbol
                  /\ UNCHANGED <<sim_prices, sim_positions, sim_cash, sim_equity,
                                 sim_trade_log, sim_equity_log>>
             ELSE IF bars.len < MinSimBars
             THEN /\ sim_caught' = FALSE
                  /\ SimNextSymbol
                  /\ UNCHANGED <<sim_prices, sim_positions, sim_cash, sim_equity,
                                 sim_trade_log, sim_equity_log>>
             ELSE \E px \in SimPriceDomain, latest \in SimLatestDomain, csv_ok \in BOOLEAN :
                    LET st == ManageExits(SimState, symbol, px, csv_ok)
                    IN  /\ sim_prices' = [sim_prices EXCEPT ![symbol] = Some(px)]
                        /\ SimStore(st)
                        /\ sim_caught' = st.raised
                        /\ IF st.raised THEN SimNextSymbol
                           ELSE /\ sim_pc' = "entries"
                                /\ sim_cur' = Some([px |-> px, sig |-> Signal(latest)])
                                /\ sim_idx' = sim_idx
                        /\ UNCHANGED <<sim_equity, sim_equity_log>>

\* the entries of the body of the for loop of run
sim_entries ==
    /\ sim_pc = "entries"
    /\ LET symbol == WATCHLIST[sim_idx]
           px == Val(sim_cur).px
           sig == Val(sim_cur).sig
       IN  \E csv_ok \in BOOLEAN :
             LET st == IF sig = "BUY" /\ sim_positions[symbol] = None
                       THEN EnterLong(SimState, symbol, px, csv_ok)
                       ELSE IF sig = "SELL" /\ sim_positions[symbol] = None
                       THEN EnterShort(SimState, symbol, px, csv_ok)
                       ELSE SimState
             IN  /\ SimStore(st)
                 /\ sim_caught' = st.raised
                 /\ SimNextSymbol
                 /\ UNCHANGED <<sim_prices, sim_equity, sim_equity_log>>

\* mark_equity at the end of a tick
sim_mark ==
    /\ sim_pc = "mark"
    /\ LET equity_now == sim_cash + UnrealizedTotal(sim_positions, sim_prices, Len(WATCHLIST))
           erow == [equity |-> equity_now, cash |-> sim_cash,
                    positions_value |-> PositionsValue(sim_positions, sim_prices,
                                                       Len(WATCHLIST))]
       IN  /\ sim_equity' = equity_now
           /\ sim_equity_log' = Append(sim_equity_log, erow)
    /\ sim_pc' = "flush"
    /\ UNCHANGED <<sim_idx, sim_cur, sim_prices, sim_positions, sim_cash, sim_trade_log,
                   sim_caught>>

\* flush_equity of a log that may be empty: csv_ok tells whether the write
\* of the equity file succeeds
FlushEquity(equity_log, csv_ok) ==
    IF equity_log = <<>> THEN [equity_log |-> <<>>, raised |-> FALSE]
    ELSE IF csv_ok THEN [equity_log |-> <<>>, raised |-> FALSE]
    ELSE [equity_log |-> equity_log, raised |-> TRUE]

\* flush_equity, time.sleep and the start of the next tick; an exception of
\* the write of the equity file is caught nowhere in run
sim_flush ==
    /\ sim_pc = "flush"
    /\ \E csv_ok \in BOOLEAN :
         LET f == FlushEquity(sim_equity_log, csv_ok)
         IN  /\ sim_equity_log' = f.equity_log
             /\ IF f.raised
                THEN /\ sim_pc' = "crashed"
                     /\ UNCHANGED <<sim_idx, sim_prices>>
                ELSE /\ sim_pc' = "exits"
                     /\ sim_idx' = 1
                     /\ sim_prices' = [s \in SimSymbols |-> None]
    /\ UNCHANGED <<sim_cur, sim_positions, sim_cash, sim_equity, sim_trade_log, sim_caught>>

\* KeyboardInterrupt: Python raises it wherever the main thread is, 'except
\* Exception' of the symbol loop does not catch it, the handler of run
\* calls flush_equity and run returns
sim_interrupt ==
    /\ sim_pc \in {"exits", "entries", "mark", "flush"}
    /\ \E csv_ok \in BOOLEAN :
         LET f == FlushEquity(sim_equity_log, csv_ok)
         IN  /\ sim_equity_log' = f.equity_log
             /\ sim_pc' = IF f.raised THEN "crashed" ELSE "stopped"
    /\ UNCHANGED <<sim_idx, sim_cur, sim_prices, sim_positions, sim_cash, sim_equity,
                   sim_trade_log, sim_caught>>

\* Simulator.__init__ and the start of run
SimInit ==
    /\ sim_pc = "exits"
    /\ sim_idx = 1
    /\ sim_cur = None
    /\ sim_prices = [s \in SimSymbols |-> None]
    /\ sim_positions = [s \in SimSymbols |-> None]
    /\ sim_cash = StartCash
    /\ sim_equity = StartCash
    /\ sim_trade_log = <<>>
    /\ sim_equity_log = <<>>
    /\ sim_caught = FALSE

(***************************************************************************)
(* Start-up: run_auto_trader (src/auto_trader.py) and the entry point of   *)
(* the Simulator (src/auto_sim_bot.py)                                     *)
(***************************************************************************)
\* bound of the model: iterations of a polling loop
MaxBoot == 2

\* what get_user_api_keys or os.getenv gives for a credential
CredDomain == {"absent", "empty", "set"}

\* not self.api_key: None and "" are falsy
CredMissing(c) == c # "set"

KeysMissing == CredMissing(boot_key) \/ CredMissing(boot_secret)

\* AutoTrader.__init__ raises ValueError("API keys not configured")
InitRaises == CredMissing(boot_key) \/ CredMissing(boot_secret)

\* run_auto_trader up to the first test of while True
run_auto_trader ==
    /\ boot_prog = "auto_trader"
    /\ boot_pc = "start"
    /\ boot_pc' = "loop"
    /\ UNCHANGED <<boot_prog, boot_key, boot_secret, boot_rest, boot_iters, boot_cycles>>

\* the try block of one iteration: AutoTrader(user_id, db), then
\* check_and_execute_trades; the ValueError of __init__ is caught and logged
run_auto_trader_iteration ==
    /\ boot_prog = "auto_trader"
    /\ boot_pc = "loop"
    /\ boot_iters < MaxBoot
    /\ boot_iters' = boot_iters + 1
    /\ boot_cycles' = IF InitRaises THEN boot_cycles ELSE boot_cycles + 1
    /\ boot_pc' = "sleep"
    /\ UNCHANGED <<boot_prog, boot_key, boot_secret, boot_rest>>

\* time.sleep(interval_minutes * 60), then the next iteration
run_auto_trader_sleep ==
    /\ boot_prog = "auto_trader"
    /\ boot_pc = "sleep"
    /\ boot_pc' = "loop"
    /\ UNCHANGED <<boot_prog, boot_key, boot_secret, boot_rest, boot_iters, boot_cycles>>

\* __main__ of auto_sim_bot.py: a warning is printed when a credential is
\* missing, then Simulator() and bot.run() follow; the constructor of REST
\* is library code, which may or may not raise on an empty credential
sim_main ==
    /\ boot_prog = "sim"
    /\ boot_pc = "start"
    /\ boot_pc' = IF KeysMissing /\ boot_rest THEN "dead" ELSE "loop"
    /\ UNCHANGED <<boot_prog, boot_key, boot_secret, boot_rest, boot_iters, boot_cycles>>

\* one tick of Simulator.run: the symbols, mark_equity, flush_equity, sleep
sim_tick ==
    /\ boot_prog = "sim"
    /\ boot_pc = "loop"
    /\ boot_iters < MaxBoot
    /\ boot_iters' = boot_iters + 1
    /\ boot_cycles' = boot_cycles + 1
    /\ UNCHANGED <<boot_prog, boot_key, boot_secret, boot_rest, boot_pc>>

BootInit ==
    /\ boot_prog \in {"auto_trader", "sim"}
    /\ boot_key \in CredDomain
    /\ boot_secret \in CredDomain
    /\ boot_rest \in BOOLEAN
    /\ boot_pc = "start"
    /\ boot_iters = 0
    /\ boot_cycles = 0

\* the other parts start from one fixed start-up state
BootIdle ==
    /\ BootInit
    /\ boot_prog = "auto_trader"
    /\ boot_key = "set"
    /\ boot_secret = "set"
    /\ boot_rest = TRUE

(***************************************************************************)
(* The executions that write the trades table of one user: the loop of     *)
(* run_auto_trader, the button of the settings page, the Stock Details page *)
(***************************************************************************)
\* bound of the model: rows of the trades table dated today
MaxLedger == 3

\* the background loop, and "Run Auto-Trade Now": each builds its own
\* AutoTrader on the same database
Executions == {"loop", "now"}

\* what get_today_trade_count reads from the table
LedgerCounts == [total |-> w_ledger.buys + w_ledger.sells,
                 buys |-> w_ledger.buys, sells |-> w_ledger.sells]

\* log_trade appends a row of the side of the action
Logged(action) ==
    IF action = "BUY" THEN [w_ledger EXCEPT !.buys = @ + 1]
    ELSE [w_ledger EXCEPT !.sells = @ + 1]

\* process_stock of execution e asks check_daily_limits(action); nothing is
\* held between this read and the later write
w_check(e, action) ==
    /\ w_pc[e] = "idle"
    /\ IF CheckDailyLimits(action, LedgerCounts, w_caps)
       THEN /\ w_pc' = [w_pc EXCEPT ![e] = "passed"]
            /\ w_act' = [w_act EXCEPT ![e] = action]
       ELSE UNCHANGED <<w_pc, w_act>>
    /\ UNCHANGED <<w_caps, w_ledger>>

\* execute_buy or execute_sell of execution e: submit_order, then log_trade
w_execute(e) ==
    /\ w_pc[e] = "passed"
    /\ w_ledger.buys + w_ledger.sells < MaxLedger
    /\ w_ledger' = Logged(w_act[e])
    /\ w_pc' = [w_pc EXCEPT ![e] = "idle"]
    /\ w_act' = [w_act EXCEPT ![e] = "none"]
    /\ UNCHANGED w_caps

\* the Stock Details page submits an order and logs the trade; it asks no
\* daily limit
w_manual(action) ==
    /\ w_ledger.buys + w_ledger.sells < MaxLedger
    /\ w_ledger' = Logged(action)
    /\ UNCHANGED <<w_caps, w_pc, w_act>>

WrInit ==
    /\ w_caps \in CapsDomain
    /\ w_ledger = [buys |-> 0, sells |-> 0]
    /\ w_pc = [e \in Executions |-> "idle"]
    /\ w_act = [e \in Executions |-> "none"]

\* the other parts start from one fixed state of the writers
WrIdle ==
    /\ WrInit
    /\ w_caps = [max_daily_trades |-> MaxCap, max_daily_buys |-> MaxCap,
                 max_daily_sells |-> MaxCap]

(***************************************************************************)
(* Specifications                                                          *)
(***************************************************************************)
Init ==
    /\ SigInit
    /\ fus = None
    /\ TrIdle
    /\ PnlInit
    /\ SzIdle
    /\ StIdle
    /\ SimInit
    /\ BootIdle
    /\ WrIdle

Next ==
    \/ fetch_data_fail /\ UNCHANGED <<fus, trVars, pnlVars, szVars, stVars, simVars, bootVars, wrVars>>
    \/ fetch_data_ok /\ UNCHANGED <<fus, trVars, pnlVars, szVars, stVars, simVars, bootVars, wrVars>>
    \/ check_eps_growth /\ UNCHANGED <<fus, trVars, pnlVars, szVars, stVars, simVars, bootVars, wrVars>>
    \/ check_annual_growth /\ UNCHANGED <<fus, trVars, pnlVars, szVars, stVars, simVars, bootVars, wrVars>>
    \/ calculate_moving_averages /\ UNCHANGED <<fus, trVars, pnlVars, szVars, stVars, simVars, bootVars, wrVars>>
    \/ check_volume_breakout /\ UNCHANGED <<fus, trVars, pnlVars, szVars, stVars, simVars, bootVars, wrVars>>
    \/ check_market_trend /\ UNCHANGED <<fus, trVars, pnlVars, szVars, stVars, simVars, bootVars, wrVars>>
    \/ generate_signal_score /\ UNCHANGED <<fus, trVars, pnlVars, szVars, stVars, simVars, bootVars, wrVars>>
    \/ generate_signal_raise /\ UNCHANGED <<fus, trVars, pnlVars, szVars, stVars, simVars, bootVars, wrVars>>
    \/ generate_signal_decide /\ UNCHANGED <<fus, trVars, pnlVars, szVars, stVars, simVars, bootVars, wrVars>>

\* StockAnalyzer.generate_signal
Spec == Init /\ [][Next]_vars

FusNext ==
    \/ analyze_stock_1week /\ UNCHANGED <<sigVars, trVars, pnlVars, szVars, stVars, simVars, bootVars, wrVars>>
    \/ analyze_trend /\ UNCHANGED <<sigVars, trVars, pnlVars, szVars, stVars, simVars, bootVars, wrVars>>
    \/ generate_combined_signal /\ UNCHANGED <<sigVars, trVars, pnlVars, szVars, stVars, simVars, bootVars, wrVars>>

\* the three signal-fusion functions
SpecFusion == Init /\ [][FusNext]_vars

TrStart ==
    /\ SigInit
    /\ fus = None
    /\ TrInit
    /\ PnlInit
    /\ SzIdle
    /\ StIdle
    /\ SimInit
    /\ BootIdle
    /\ WrIdle

TrNext ==
    \/ check_and_execute_trades /\ UNCHANGED <<sigVars, fus, pnlVars, szVars, stVars, simVars, bootVars, wrVars>>
    \/ process_stock /\ UNCHANGED <<sigVars, fus, pnlVars, szVars, stVars, simVars, bootVars, wrVars>>
    \/ (\E a \in {"BUY", "SELL"} : check_daily_limits(a)) /\ UNCHANGED <<sigVars, fus, pnlVars, szVars, stVars, simVars, bootVars, wrVars>>
    \/ MidnightUtcHost /\ UNCHANGED <<sigVars, fus, pnlVars, szVars, stVars, simVars, bootVars, wrVars>>
    \/ UtcMidnight /\ UNCHANGED <<sigVars, fus, pnlVars, szVars, stVars, simVars, bootVars, wrVars>>
    \/ LocalMidnight /\ UNCHANGED <<sigVars, fus, pnlVars, szVars, stVars, simVars, bootVars, wrVars>>

\* one AutoTrader running cycles over the trades table
SpecTrader == TrStart /\ [][TrNext]_vars

PnlNext ==
    \/ analyze_pnl_row /\ UNCHANGED <<sigVars, fus, trVars, szVars, stVars, simVars, bootVars, wrVars>>
    \/ analyze_pnl_return /\ UNCHANGED <<sigVars, fus, trVars, szVars, stVars, simVars, bootVars, wrVars>>

\* one call of analyze_pnl on a trade log of up to MaxRows rows
SpecPnl == Init /\ [][PnlNext]_vars

SzStart ==
    /\ SigInit
    /\ fus = None
    /\ TrIdle
    /\ PnlInit
    /\ SzInit
    /\ StIdle
    /\ SimInit
    /\ BootIdle
    /\ WrIdle

SzNext ==
    calculate_position_size /\ UNCHANGED <<sigVars, fus, trVars, pnlVars, stVars, simVars, bootVars, wrVars>>

\* calls of calculate_position_size in one environment
SpecSizing == SzStart /\ [][SzNext]_vars

StStart ==
    /\ SigInit
    /\ fus = None
    /\ TrIdle
    /\ PnlInit
    /\ SzIdle
    /\ StInit
    /\ SimInit
    /\ BootIdle
    /\ WrIdle

StNext ==
    \/ analyze_buying_strategy /\ UNCHANGED <<sigVars, fus, trVars, pnlVars, szVars, simVars, bootVars, wrVars>>
    \/ execute_buy /\ UNCHANGED <<sigVars, fus, trVars, pnlVars, szVars, simVars, bootVars, wrVars>>

\* one buy plan: analyze_buying_strategy, then execute_buy
SpecStrategy == StStart /\ [][StNext]_vars

SimNext ==
    \/ sim_exits /\ UNCHANGED <<sigVars, fus, trVars, pnlVars, szVars, stVars, bootVars, wrVars>>
    \/ sim_entries /\ UNCHANGED <<sigVars, fus, trVars, pnlVars, szVars, stVars, bootVars, wrVars>>
    \/ sim_mark /\ UNCHANGED <<sigVars, fus, trVars, pnlVars, szVars, stVars, bootVars, wrVars>>
    \/ sim_flush /\ UNCHANGED <<sigVars, fus, trVars, pnlVars, szVars, stVars, bootVars, wrVars>>
    \/ sim_interrupt /\ UNCHANGED <<sigVars, fus, trVars, pnlVars, szVars, stVars, bootVars, wrVars>>

\* the loop of Simulator.run
SpecSim == Init /\ [][SimNext]_vars

BootStart ==
    /\ SigInit
    /\ fus = None
    /\ TrIdle
    /\ PnlInit
    /\ SzIdle
    /\ StIdle
    /\ SimInit
    /\ BootInit
    /\ WrIdle

BootNext ==
    \/ run_auto_trader /\ UNCHANGED <<sigVars, fus, trVars, pnlVars, szVars, stVars, simVars, wrVars>>
    \/ run_auto_trader_iteration /\ UNCHANGED <<sigVars, fus, trVars, pnlVars, szVars, stVars, simVars, wrVars>>
    \/ run_auto_trader_sleep /\ UNCHANGED <<sigVars, fus, trVars, pnlVars, szVars, stVars, simVars, wrVars>>
    \/ sim_main /\ UNCHANGED <<sigVars, fus, trVars, pnlVars, szVars, stVars, simVars, wrVars>>
    \/ sim_tick /\ UNCHANGED <<sigVars, fus, trVars, pnlVars, szVars, stVars, simVars, wrVars>>

\* the start of the two engines under every state of the credentials
SpecBoot == BootStart /\ [][BootNext]_vars

WrStart ==
    /\ SigInit
    /\ fus = None
    /\ TrIdle
    /\ PnlInit
    /\ SzIdle
    /\ StIdle
    /\ SimInit
    /\ BootIdle
    /\ WrInit

WrNext ==
    \/ (\E e \in Executions, a \in {"BUY", "SELL"} : w_check(e, a)) /\ UNCHANGED <<sigVars, fus, trVars, pnlVars, szVars, stVars, simVars, bootVars>>
    \/ (\E e \in Executions : w_execute(e)) /\ UNCHANGED <<sigVars, fus, trVars, pnlVars, szVars, stVars, simVars, bootVars>>
    \/ (\E a \in {"BUY", "SELL"} : w_manual(a)) /\ UNCHANGED <<sigVars, fus, trVars, pnlVars, szVars, stVars, simVars, bootVars>>

\* the executions of one user on one day, interleaved as the processes run
SpecWriters == WrStart /\ [][WrNext]_vars

(***************************************************************************)
(* Properties of StockAnalyzer.generate_signal                             *)
(***************************************************************************)
Returned == sig_pc = "done" /\ Val(sig_result).signal # "ERROR"

PriceBelow(ma, key) ==
    /\ key \in DOMAIN ma
    /\ ma[key] # None
    /\ Val(ma.current_price) < Val(ma[key])

NumBelow == BoolInt(PriceBelow(ma_check, "ma_50")) + BoolInt(PriceBelow(ma_check, "ma_200"))

C2_BuyScoreIsCount ==
    buy_criteria # None =>
        /\ DOMAIN Val(buy_criteria) = {"fundamental", "technical", "volume", "market"}
        /\ buy_score = NumTrueOf(Val(buy_criteria))
        /\ buy_score \in 0..4

\* all four criteria met on a bar that also shows a golden cross
C2_Witness ==
    /\ buy_criteria # None
    /\ Get(ma_check, "golden_cross", FALSE)
    /\ NumTrueOf(Val(buy_criteria)) = 4
    /\ buy_score = 4

HoldSupported ==
    \/ Get(ma_check, "above_50", FALSE)
    \/ eps_check.yoy_growth # None /\ Val(eps_check.yoy_growth).num > 0
    \/ annual_growth.avg_growth # None /\ Val(annual_growth.avg_growth).num > 0

GrowthAbsent ==
    /\ eps_check # None
    /\ annual_growth # None
    /\ eps_check.yoy_growth = None
    /\ annual_growth.avg_growth = None

\* C4: when neither growth estimator is available (yoy_growth = None and
\* avg_growth = None), generate_signal does not raise: it goes on to return
\* one of STRONG BUY, BUY, HOLD, SELL with the fundamental criterion false.
C4_AbsentFundamentals ==
    GrowthAbsent =>
        /\ sig_pc # "raised"
        /\ buy_criteria # None => ~Val(buy_criteria).fundamental
        /\ sig_pc = "done" =>
               Val(sig_result).signal \in {"STRONG BUY", "BUY", "HOLD", "SELL"}

\* C5: the market criterion is true only if the benchmark price is above its
\* 50-period and its 200-period MA and the 50 is above the 200; when the
\* 200-period MA is undefined (fewer than 200 bars) the criterion is false.
C5_MarketCriterion ==
    (market_check # None /\ market_check.meets_criteria) =>
        /\ market_check.spy_ma_200 # None
        /\ market_check.spy_price > Val(market_check.spy_ma_50)
        /\ market_check.spy_price > Val(market_check.spy_ma_200)
        /\ Val(market_check.spy_ma_50) > Val(market_check.spy_ma_200)

(***************************************************************************)
(* Properties of the signal fusion                                         *)
(***************************************************************************)
BuySide == {"BUY", "STRONG BUY"}

SellSide == {"SELL", "STRONG SELL"}

\* the direction an analyst text recommends
AnalystSignal(text) ==
    LET buy == text \cap {"strong buy", "outperform"} # {}
        sell == text \cap {"sell", "underperform"} # {}
    IN  IF buy /\ ~sell THEN "BUY" ELSE IF sell /\ ~buy THEN "SELL" ELSE "HOLD"

\* a fusion call has returned a signal (not NO DATA)
Fused == fus # None /\ DOMAIN Val(fus) \cap {"Tech_Signal", "tech_signal"} # {}

FusTech == IF "Tech_Signal" \in DOMAIN Val(fus) THEN Val(fus).Tech_Signal ELSE Val(fus).tech_signal

FusExternal ==
    IF Val(fus).fn = "analyze_stock_1week" THEN Val(fus).News_Signal
    ELSE IF Val(fus).fn = "analyze_trend" THEN AnalystSignal(Val(fus).Analyst)
    ELSE AnalystSignal(Val(fus).analyst_rec)

FusFinal ==
    IF Val(fus).fn = "analyze_stock_1week" THEN Val(fus).Final_Signal
    ELSE IF Val(fus).fn = "analyze_trend" THEN Val(fus).Signal
    ELSE Val(fus).signal

FusConfidence == Get(Val(fus), "Confidence", "absent")

NeverFlips ==
    /\ FusTech = "BUY" => FusFinal \notin SellSide
    /\ FusTech = "SELL" => FusFinal \notin BuySide

Opposite ==
    \/ FusTech = "BUY" /\ FusExternal = "SELL"
    \/ FusTech = "SELL" /\ FusExternal = "BUY"

DatedToday(sides) ==
    Cardinality({i \in DOMAIN trades :
                    trades[i].executed_at = today /\ trades[i].side \in sides})

Blocked(action) ==
    \/ DatedToday({"BUY", "SELL"}) >= caps.max_daily_trades
    \/ action = "BUY" /\ DatedToday({"BUY"}) >= caps.max_daily_buys
    \/ action = "SELL" /\ DatedToday({"SELL"}) >= caps.max_daily_sells

\* C7: check_daily_limits(action) answers with a boolean, and the answer is
\* False exactly when today's total has reached max_daily_trades or today's
\* count of that action has reached its own cap
C7_GuardRule ==
    last_check # None =>
        /\ Val(last_check).allowed \in BOOLEAN
        /\ Val(last_check).allowed = ~Blocked(Val(last_check).action)

\* a BUY is blocked by the buy cap alone, and a SELL by the sell cap alone
C7_Witness ==
    /\ last_check # None
    /\ ~Val(last_check).allowed
    /\ DatedToday({"BUY", "SELL"}) < caps.max_daily_trades
    /\ DatedToday({"BUY", "SELL"}) > 0

\* C8: within one calendar day the orders the trader has submitted stay
\* within max_daily_buys, max_daily_sells and max_daily_trades
C8_DailyCapsHold ==
    /\ submitted.buys <= caps.max_daily_buys
    /\ submitted.sells <= caps.max_daily_sells
    /\ submitted.buys + submitted.sells <= caps.max_daily_trades

RECURSIVE PrefixQty(_, _)
PrefixQty(lots, i) == IF i = 0 THEN 0 ELSE lots[i].qty + PrefixQty(lots, i - 1)

\* the latest iteration read a SELL row whose price parses
SellStep ==
    /\ n_rows' = n_rows + 1
    /\ row' # None
    /\ Val(row').price # None
    /\ Upper(Val(row').action) = "SELL"

SellSym == Upper(Val(row').symbol)

SellQty == IF Val(row').qty # None THEN Val(Val(row').qty) ELSE 1

SellPrice == Val(Val(row').price)

\* the lots of the symbol a sell of SellQty reaches, oldest first, what it
\* takes from each, and what it leaves in each
Reached == {i \in DOMAIN open_buys[SellSym] : PrefixQty(open_buys[SellSym], i - 1) < SellQty}

Taken(i) ==
    IF i \in Reached
    THEN Min(open_buys[SellSym][i].qty, SellQty - PrefixQty(open_buys[SellSym], i - 1))
    ELSE 0

Remains(i) == open_buys[SellSym][i].qty - Taken(i)

Emptied == {i \in DOMAIN open_buys[SellSym] : Remains(i) = 0}

\* the lots change as FIFO matching says: the emptied lots are the oldest
\* ones and are gone, every other lot stays in place with what remains in
\* it, and the lots of the other symbols are untouched
LotsAsFifo ==
    LET lots == open_buys[SellSym]
        gone == Cardinality(Emptied)
    IN  /\ Reached = 1..Cardinality(Reached)
        /\ Emptied = 1..gone
        /\ open_buys'[SellSym] =
               [j \in 1..(Len(lots) - gone) |->
                   [price |-> lots[j + gone].price, qty |-> Remains(j + gone)]]
        /\ \A sym \in PnlSymbols \ {SellSym} : open_buys'[sym] = open_buys[sym]

\* one pair per reached lot is appended, in the order of the lots, with the
\* quantity taken from the lot
PairsAsFifo ==
    /\ Len(pairs') = Len(pairs) + Cardinality(Reached)
    /\ SubSeq(pairs', 1, Len(pairs)) = pairs
    /\ \A i \in Reached :
           /\ pairs'[Len(pairs) + i].symbol = SellSym
           /\ pairs'[Len(pairs) + i].qty = Taken(i)

ExactPnl(i) == (SellPrice - open_buys[SellSym][i].price) * Taken(i)

\* C10 as stated: every SELL record consumes the open lots of its symbol
\* oldest first, takes min(lot, sell) from each, emits one pair per lot with
\* the lot's and the sell's price and pnl = (sell_price - lot_price) *
\* matched_qty, and removes a lot only when nothing remains in it
C10_FifoAsStated ==
    [][SellStep =>
          /\ LotsAsFifo
          /\ PairsAsFifo
          /\ \A i \in Reached :
                 /\ pairs'[Len(pairs) + i].buy_price = open_buys[SellSym][i].price
                 /\ pairs'[Len(pairs) + i].sell_price = SellPrice
                 /\ pairs'[Len(pairs) + i].pnl = ExactPnl(i)]_vars

\* C10 amended: the same matching, where the pair carries the two prices
\* rounded to 4 decimals and the pnl rounded to 2 decimals
C10_FifoRounded ==
    [][SellStep =>
          /\ LotsAsFifo
          /\ PairsAsFifo
          /\ \A i \in Reached :
                 /\ pairs'[Len(pairs) + i].buy_price = Round4(open_buys[SellSym][i].price)
                 /\ pairs'[Len(pairs) + i].sell_price = Round4(SellPrice)
                 /\ pairs'[Len(pairs) + i].pnl = Round2(ExactPnl(i))]_vars

\* buy 10 at 100, sell 6 at 110 (one pair of 6 with pnl 60, 4 left), buy 10
\* at 110, sell 6 at 110: the sell closes the old lot and opens the new one
C10_Witness ==
    /\ n_rows = 4
    /\ pairs = <<[symbol |-> "AAPL", buy_price |-> Dollars(100),
                  sell_price |-> Dollars(110), qty |-> 6, pnl |-> Dollars(60)],
                 [symbol |-> "AAPL", buy_price |-> Dollars(100),
                  sell_price |-> Dollars(110), qty |-> 4, pnl |-> Dollars(40)],
                 [symbol |-> "AAPL", buy_price |-> Dollars(110),
                  sell_price |-> Dollars(110), qty |-> 2, pnl |-> 0]>>
    /\ open_buys["AAPL"] = <<[price |-> Dollars(110), qty |-> 8]>>

RECURSIVE SumQty(_)
SumQty(items) == IF items = <<>> THEN 0 ELSE Head(items).qty + SumQty(Tail(items))

PairsOf(sym) == SelectSeq(pairs, LAMBDA p : p.symbol = sym)

MatchedOf(sym) == SumQty(PairsOf(sym))

RemainingOf(sym) == SumQty(open_buys[sym])

\* a SELL row that finds no open lot of its symbol changes neither the lots
\* nor the pairs, and the loop goes on
DroppedSell ==
    SellStep /\ open_buys[SellSym] = <<>>
        => UNCHANGED <<open_buys, pairs>> /\ pnl_pc' = "rows"

RECURSIVE TotalPnl(_)
TotalPnl(n) == IF n = 0 THEN 0 ELSE pairs[n].pnl + TotalPnl(n - 1)

Wins == Cardinality({i \in DOMAIN pairs : pairs[i].pnl > 0})

Summary == Val(pnl_result)

\* realized PnL is the sum of the pnl of the pairs, and both figures are 0
\* when there is no pair
SummaryTotals ==
    /\ Summary.paired_trades = Len(pairs)
    /\ Summary.realized_pnl = TotalPnl(Len(pairs))
    /\ Len(pairs) = 0 => Summary.realized_pnl = 0 /\ Summary.win_rate = 0

\* C12 as stated: realized PnL is the sum of the pairs' pnl, the win rate is
\* exactly (pairs with pnl > 0) / (pairs), and both are 0 without pairs
C12_SummaryAsStated ==
    pnl_result # None =>
        /\ SummaryTotals
        /\ Len(pairs) > 0 => Summary.win_rate * Len(pairs) = Wins * 100 * 100

\* C12 amended: the win rate is that ratio as a percentage rounded to 2
\* decimals, so it is within half a hundredth of a percent of the ratio
C12_Summary ==
    pnl_result # None =>
        /\ SummaryTotals
        /\ Len(pairs) > 0 =>
               2 * Abs(Summary.win_rate * Len(pairs) - Wins * 100 * 100) <= Len(pairs)

\* three pairs of which two are wins: the win rate is reported as 66.67
C12_Witness ==
    /\ pnl_result # None
    /\ Summary.paired_trades = 3
    /\ Wins = 2
    /\ Summary.win_rate = 6667
    /\ Summary.realized_pnl > 0

\* the log is empty, or no sell matched a lot: both figures are 0
C12_WitnessNoPairs ==
    /\ pnl_result # None
    /\ n_rows > 0
    /\ tally["AAPL"].sells > 0
    /\ Summary.paired_trades = 0

(***************************************************************************)
(* Properties of calculate_position_size                                   *)
(***************************************************************************)
\* the ports answered, and the ATR is defined
SzPortsOk == sz_env.api_ok /\ sz_env.account # None /\ sz_env.bars # None

SzAtrDefined == SzPortsOk /\ Len(Val(sz_env.bars)) >= MinAtrBars

\* 14 times the ATR
SzAtr14 ==
    SumTrueRange(Val(sz_env.bars), Len(Val(sz_env.bars)) - AtrWindow + 1,
                 Len(Val(sz_env.bars)))

SzSizable ==
    /\ SzAtrDefined
    /\ Val(sz_env.account) > 0
    /\ sz_env.entry_price > 0
    /\ SzAtr14 > 0

\* q = floor((equity * risk_percent) / (ATR * multiplier)), said without a
\* division
IsFloorOfRisk(q, risk_percent) ==
    LET risk_cap == Val(sz_env.account) * risk_percent * AtrWindow
        per_share == SzAtr14 * sz_env.multiplier * RiskScale
    IN  q * per_share <= risk_cap /\ risk_cap < (q + 1) * per_share

\* C13: the quantity is floor((equity * risk_percent) / (ATR * multiplier))
\* when equity > 0, entry price > 0 and the ATR is defined and > 0; it is 0
\* when the ATR is undefined or 0, equity <= 0, entry price <= 0 or a port
\* fails; it is never negative
C13_AtrRiskSizing ==
    sz_call # None =>
        /\ Val(sz_call).qty >= 0
        /\ SzSizable => IsFloorOfRisk(Val(sz_call).qty, Val(sz_call).risk_percent)
        /\ ~SzSizable => Val(sz_call).qty = 0

\* equity 100000, risk 0.01, ATR 2.0, multiplier 2 gives 250
C13_Witness ==
    /\ sz_call # None
    /\ SzSizable
    /\ Val(sz_env.account) = 100000
    /\ Val(sz_call).risk_percent = 100
    /\ SzAtr14 = 2 * AtrWindow
    /\ sz_env.multiplier = 2
    /\ Val(sz_call).qty = 250

\* a call that returns 0 because the bars are one short of 15
C13_WitnessTooFewBars ==
    /\ sz_call # None
    /\ SzPortsOk
    /\ Val(sz_env.account) > 0
    /\ sz_env.entry_price > 0
    /\ Len(Val(sz_env.bars)) = MinAtrBars - 1
    /\ Val(sz_call).risk_percent > 0
    /\ Val(sz_call).qty = 0

\* C14: with equity, ATR and multiplier fixed, a call with a risk_percent
\* that is not smaller returns a quantity that is not smaller
C14_MonotonicInRisk ==
    sz_call # None /\ sz_prev # None =>
        /\ Val(sz_prev).risk_percent <= Val(sz_call).risk_percent
               => Val(sz_prev).qty <= Val(sz_call).qty
        /\ Val(sz_call).risk_percent <= Val(sz_prev).risk_percent
               => Val(sz_call).qty <= Val(sz_prev).qty

\* two calls in a sizable environment: the doubled risk doubles the quantity
C14_Witness ==
    /\ sz_call # None
    /\ sz_prev # None
    /\ SzSizable
    /\ Val(sz_prev).risk_percent = 100
    /\ Val(sz_call).risk_percent = 200
    /\ Val(sz_prev).qty > 0
    /\ Val(sz_call).qty = 2 * Val(sz_prev).qty

(***************************************************************************)
(* Properties of the buy sizing of AutoTrader                              *)
(***************************************************************************)
Strategy == Val(st_strategy)

Planned == st_strategy # None /\ Strategy.should_buy

BuyPrice == Val(st_in.analysis.analysis.moving_averages.current_price)

BuyOrder == Val(st_buy).effect.order

\* position_pct = max_position_pct * min(score / 10, 1.0), at most
\* max_position_pct
PctAsStated ==
    LET pct == Strategy.position_pct
        score == Strategy.score
    IN  /\ IF score >= 10 THEN pct.num = st_in.max_position_pct * pct.den
           ELSE pct.num * 10 = st_in.max_position_pct * score * pct.den
        /\ pct.num <= st_in.max_position_pct * pct.den

\* quantity = floor(buying_power * (position_pct / 100) / current_price), and
\* its cost is within max_position_pct percent of the buying power
QtyAsStated(quantity, buying_power) ==
    LET pct == Strategy.position_pct
        cost == pct.den * 100 * BuyPrice
    IN  /\ quantity * cost <= buying_power * pct.num
        /\ buying_power * pct.num < (quantity + 1) * cost
        /\ quantity * BuyPrice * 100 <= st_in.max_position_pct * buying_power

\* C15: the position percentage is max_position_pct * min(score/10, 1.0) and
\* never above max_position_pct; an order carries floor(buying_power *
\* (position_pct/100) / current_price) shares, so that quantity *
\* current_price is at most max_position_pct percent of the buying power
C15_BuyingPowerSizing ==
    /\ Planned => PctAsStated
    /\ st_buy # None /\ BuyOrder # None
           => QtyAsStated(Val(BuyOrder).qty, Val(Val(st_buy).account))

\* a score above 10 is capped: the order takes the whole max_position_pct
C15_Witness ==
    /\ Planned
    /\ Strategy.score > 10
    /\ st_buy # None
    /\ BuyOrder # None
    /\ Val(BuyOrder).qty * BuyPrice * 100 > (st_in.max_position_pct - 1) * Val(Val(st_buy).account)

\* a score below 10 gives a proportional share
C15_WitnessBelowCap ==
    /\ Planned
    /\ Strategy.score < 10
    /\ st_buy # None
    /\ BuyOrder # None


(***************************************************************************)
(* Properties of the Simulator                                             *)
(***************************************************************************)
Open(s) == sim_positions[s] # None

Held(s) == Val(sim_positions[s])

\* the levels of a position, said with the percentages of the settings
LevelsOf(pos) ==
    IF pos.side = "LONG"
    THEN /\ pos.stop * 100 = pos.entry * (100 - SL_PCT)
         /\ pos.take * 100 = pos.entry * (100 + TP_PCT)
         /\ pos.stop < pos.entry /\ pos.entry < pos.take
    ELSE /\ pos.side = "SHORT"
         /\ pos.stop * 100 = pos.entry * (100 + SL_PCT)
         /\ pos.take * 100 = pos.entry * (100 - TP_PCT)
         /\ pos.take < pos.entry /\ pos.entry < pos.stop

\* a position that is open before and after a step is the same position
LevelsKept == \A s \in SimSymbols : Open(s) /\ sim_positions'[s] # None
                                        => sim_positions'[s] = sim_positions[s]

\* C16: every open position of the Simulator has entry > 0, a LONG has
\* stop = entry * (1 - SL_PCT) and take = entry * (1 + TP_PCT), a SHORT has
\* stop = entry * (1 + SL_PCT) and take = entry * (1 - TP_PCT), so that
\* stop < entry < take for a LONG and take < entry < stop for a SHORT, and
\* no step changes the levels of a position that stays open.
C16_BracketLevels ==
    /\ [](\A s \in SimSymbols : Open(s) => Held(s).entry > 0 /\ LevelsOf(Held(s)))
    /\ [][LevelsKept]_vars

\* a LONG and a SHORT are open together, one tick after they were opened
C16_Witness ==
    /\ \E s \in SimSymbols : Open(s) /\ Held(s).side = "LONG"
    /\ \E s \in SimSymbols : Open(s) /\ Held(s).side = "SHORT"
    /\ Len(sim_trade_log) = 2
    /\ sim_pc = "entries"
    /\ Open(WATCHLIST[sim_idx])
    /\ Val(sim_cur).px # Held(WATCHLIST[sim_idx]).entry


\* the last row of a trade log that is not empty
LastRow(log) == log[Len(log)]

\* manage_exits(s, px) was called in this step on an open position of s and
\* returned
ExitsReturned(s) ==
    /\ sim_pc = "exits"
    /\ s = WATCHLIST[sim_idx]
    /\ sim_prices'[s] # None
    /\ Open(s)
    /\ ~sim_caught'

StopCrossed(pos, px) == IF pos.side = "LONG" THEN px <= pos.stop ELSE px >= pos.stop

TakeCrossed(pos, px) == IF pos.side = "LONG" THEN px >= pos.take ELSE px <= pos.take

ExitRule ==
    \A s \in SimSymbols :
        ExitsReturned(s) =>
            LET pos == Held(s)
                px == Val(sim_prices'[s])
            IN  IF StopCrossed(pos, px) \/ TakeCrossed(pos, px)
                THEN /\ sim_positions'[s] = None
                     /\ Len(sim_trade_log') = Len(sim_trade_log) + 1
                     /\ SubSeq(sim_trade_log', 1, Len(sim_trade_log)) = sim_trade_log
                     /\ LastRow(sim_trade_log').action = "CLOSE"
                     /\ LastRow(sim_trade_log').symbol = s
                     /\ LastRow(sim_trade_log').side = pos.side
                     /\ LastRow(sim_trade_log').price = px
                     /\ LastRow(sim_trade_log').note.text =
                            IF StopCrossed(pos, px) THEN "Stop-loss hit"
                            ELSE "Take-profit hit"
                ELSE UNCHANGED <<sim_positions, sim_cash, sim_trade_log>>

\* C17: a call of manage_exits that returns closes an open LONG exactly
\* when price <= stop (reason "Stop-loss hit") or price >= take (reason
\* "Take-profit hit"), an open SHORT exactly when price >= stop or
\* price <= take; the closed position is removed from the store and one
\* CLOSE record is appended; for a price strictly between the levels the
\* positions, the cash and the trade log are unchanged.
C17_ExitRule == [][ExitRule]_vars

\* manage_exits has just closed a position at its stop
C17_Witness ==
    /\ sim_pc = "entries"
    /\ ~sim_caught
    /\ ~Open(WATCHLIST[sim_idx])
    /\ Len(sim_trade_log) = 2
    /\ LastRow(sim_trade_log).action = "CLOSE"
    /\ LastRow(sim_trade_log).symbol = WATCHLIST[sim_idx]
    /\ LastRow(sim_trade_log).note.text = "Stop-loss hit"
    /\ LastRow(sim_trade_log).price = sim_trade_log[1].price - PctOf(sim_trade_log[1].price, SL_PCT)

\* manage_exits has left a position open at a price between its levels
C17_WitnessBetween ==
    /\ sim_pc = "entries"
    /\ Open(WATCHLIST[sim_idx])
    /\ Val(sim_cur).px > Held(WATCHLIST[sim_idx]).stop
    /\ Val(sim_cur).px < Held(WATCHLIST[sim_idx]).take
    /\ Val(sim_cur).px # Held(WATCHLIST[sim_idx]).entry
    /\ Held(WATCHLIST[sim_idx]).side = "LONG"


\* enter_long and enter_short, called in this state on a symbol that has an
\* open position, return the state as it is
EnterIsNoOp(s) ==
    \A px \in SimPriceDomain, csv_ok \in BOOLEAN :
        /\ EnterLong(SimState, s, px, csv_ok) = SimState
        /\ EnterShort(SimState, s, px, csv_ok) = SimState

\* the rows a step appends to the trade log
Appended == {sim_trade_log'[i] : i \in (DOMAIN sim_trade_log') \ (DOMAIN sim_trade_log)}

\* no step opens a position for a symbol that has one
NoSecondOpen ==
    \A s \in SimSymbols :
        Open(s) => ~ \E r \in Appended : r.symbol = s /\ r.action = "OPEN"

\* results of generate_signal that process_stock goes on with
Processed == {r \in TraderAnalyses : "signal" \in DOMAIN r}

\* quantities get_position can report
ReportedDomain == {-7, 0, 7}

\* process_stock plans a buy only when the reported quantity is 0
BuyOnlyWhenFlat ==
    \A result \in Processed, current_position \in ReportedDomain :
        PlannedTrade(result, current_position, TodayTradeCount(trades, today), caps) = "buy"
            => current_position = 0

\* C18: the store of the Simulator keeps at most one Position per symbol:
\* enter_long and enter_short on a symbol with an open Position change
\* nothing (positions, cash and trade log stay as they are), and no step of
\* the run loop opens a position for a symbol that has one; process_stock
\* of the AutoTrader plans a buy only when the reported quantity is 0.
C18_OnePosition ==
    /\ [](/\ \A s \in SimSymbols : Open(s) => EnterIsNoOp(s)
          /\ BuyOnlyWhenFlat)
    /\ [][NoSecondOpen]_vars

\* the loop is at the entries of a symbol that has a position, with a signal
\* to enter, while process_stock would buy at a reported quantity of 0
C18_Witness ==
    /\ sim_pc = "entries"
    /\ Open(WATCHLIST[sim_idx])
    /\ Val(sim_cur).sig \in {"BUY", "SELL"}
    /\ \E result \in Processed :
           PlannedTrade(result, 0, TodayTradeCount(trades, today), caps) = "buy"


\* in SpecTrader: a step that submits a buy order was taken at a reported
\* quantity of 0
C18_TraderBuysWhenFlat ==
    [][submitted'.buys > submitted.buys =>
           tr_last' # None /\ Val(tr_last').reported = Some(0)]_vars

C18_TraderWitness ==
    /\ tr_last # None
    /\ Val(tr_last).reported = Some(0)
    /\ submitted.buys > 0
    /\ positions[Val(tr_last).symbol] > 0

(***************************************************************************)
(* Properties of the loops over the symbols                                *)
(***************************************************************************)
\* the iteration of check_and_execute_trades that this step runs fails
TraderFails == tr_pc = "loop" /\ tr_last' # None /\ Val(tr_last').failed

\* it fails before an order of the symbol is accepted by the broker
TraderFailsBeforeOrder == TraderFails /\ submitted' = submitted

\* the loop goes to the next symbol, or ends the cycle after the last one
TraderGoesOn ==
    IF tr_idx < Len(Watchlist)
    THEN tr_pc' = "loop" /\ tr_idx' = tr_idx + 1
    ELSE tr_pc' = "idle"

\* C20: when the processing of a symbol fails in a cycle of
\* check_and_execute_trades (an exception or an ERROR result of the
\* analysis, an exception of a port in execute_buy or execute_sell), the
\* loop goes to the next symbol of the watchlist in the same cycle, after
\* the last symbol the next cycle can start, and the failed symbol has
\* submitted no order.
C20_FailureIsolation ==
    /\ [][TraderFails => TraderGoesOn /\ UNCHANGED <<submitted, positions>>]_vars
    /\ [](tr_pc = "loop" => tr_idx \in DOMAIN Watchlist /\ ENABLED process_stock)
    /\ [](tr_pc = "idle" => ENABLED check_and_execute_trades)

\* in SpecTrader: every failed symbol is followed by the next one, and one
\* that fails before the broker accepts its order leaves no trade record
C20_TraderGoesOn ==
    /\ [][TraderFails => TraderGoesOn]_vars
    /\ [][TraderFailsBeforeOrder => UNCHANGED <<positions, trades, lost>>]_vars
    /\ [](tr_pc = "loop" => tr_idx \in DOMAIN Watchlist /\ ENABLED process_stock)
    /\ [](tr_pc = "idle" => ENABLED check_and_execute_trades)

\* the first symbol failed and the loop is at the second
C20_TraderWitness ==
    /\ tr_last # None
    /\ Val(tr_last).failed
    /\ Val(tr_last).symbol = Watchlist[1]
    /\ tr_pc = "loop"
    /\ tr_idx = 2

\* the iteration of Simulator.run that this step runs or finishes ends in
\* the except branch
SimFails ==
    /\ sim_pc \in {"exits", "entries"}
    /\ sim_caught'
    /\ sim_pc' \notin {"stopped", "crashed"}

SimGoesOn ==
    IF sim_idx < Len(WATCHLIST)
    THEN sim_pc' = "exits" /\ sim_idx' = sim_idx + 1
    ELSE sim_pc' = "mark"

\* in SpecSim: a symbol whose iteration ends in the except branch of run
\* does not stop the loop, which goes to the next symbol or to mark_equity,
\* and from there to the next tick
C20_SimIsolation ==
    /\ [][SimFails => SimGoesOn]_vars
    /\ [](sim_pc = "exits" => sim_idx \in DOMAIN WATCHLIST /\ ENABLED sim_exits)
    /\ [](sim_pc = "mark" => ENABLED sim_mark)

C20_SimWitness ==
    /\ sim_caught
    /\ sim_pc = "exits"
    /\ sim_idx = 2
    /\ sim_trade_log = <<>>


(***************************************************************************)
(* Properties of the rejections of execute_buy                             *)
(***************************************************************************)
\* the price execute_buy reads: 0 when the analysis has none
PriceRead == Get(st_in.analysis.analysis.moving_averages, "current_price", Some(0))

\* the quantity execute_buy computes from a known price and buying power
QuantityComputed ==
    LET pct == Strategy.position_pct
    IN  (Val(Val(st_buy).account) * pct.num) \div (pct.den * 100 * Val(PriceRead))

\* the sizing is invalid: no price, or a quantity below 1
InvalidSizing ==
    /\ st_buy # None
    /\ Val(st_buy).account # None
    /\ IF Truthy(PriceRead) THEN QuantityComputed <= 0 ELSE TRUE

Concrete(order) ==
    /\ order.qty \in Nat /\ order.qty >= 1
    /\ order.stop_loss \in Nat /\ order.stop_loss > 0
    /\ order.take_profit \in Nat /\ order.take_profit > order.stop_loss

\* an analysis of a series too short for the moving averages has no price
NoPriceAnalysis ==
    [analysis |-> [moving_averages |->
                       MovingAverages(Some([len |-> 30, close |-> 120]),
                                      None, None, None, None)]]

\* execute_buy on an analysis without a price rejects the buy
NoPriceRejected ==
    \A account \in BuyingPowerDomain, outcome \in PortOutcomes,
       pct \in MaxPositionPctDomain :
        ExecuteBuy("AAPL", NoPriceAnalysis, Rat(pct, 1), Some(account), outcome, 1)
            = NoEffect

\* the dashboard rejects a quantity <= 0 with a warning, and the orders it
\* submits are whole
DashboardRejection ==
    \A entry_price \in SzEntryDomain, api_ok \in BOOLEAN, account \in SzEquityDomain,
       bars \in SzBarsDomain :
        LET qty == CalculatePositionSize(entry_price, api_ok, account, bars, 100, 2)
            buy == DashboardBuy(entry_price, api_ok, account, bars)
        IN  /\ qty <= 0 => buy.order = None /\ buy.warned
            /\ buy.order # None => Concrete(Val(buy.order))

\* C19: when execute_buy finds no entry price or computes a quantity <= 0,
\* it submits no order, appends no trade record and returns without an
\* exception, and process_stock of the dashboard skips the buy with a
\* warning when the computed size is <= 0; every buy order either of them
\* submits has a quantity >= 1, a stop-loss and a take-profit price.
C19_RejectionNotError ==
    /\ InvalidSizing => /\ Val(st_buy).effect.order = None
                        /\ Val(st_buy).effect.record = None
                        /\ ~Val(st_buy).effect.raised
    /\ st_buy # None /\ BuyOrder # None => Concrete(Val(BuyOrder))
    /\ NoPriceRejected
    /\ DashboardRejection

\* a buy whose quantity came out as 0 has been rejected
C19_Witness ==
    /\ InvalidSizing
    /\ Truthy(PriceRead)
    /\ QuantityComputed = 0
    /\ Val(st_buy).outcome = "ok"

\* the dashboard has sizes to reject and sizes to submit
C19_WitnessDashboard ==
    /\ st_buy # None
    /\ \E entry_price \in SzEntryDomain, account \in SzEquityDomain, bars \in SzBarsDomain :
           /\ entry_price > 0 /\ account # None /\ bars # None
           /\ DashboardBuy(entry_price, TRUE, account, bars).order = None
    /\ \E entry_price \in SzEntryDomain, account \in SzEquityDomain, bars \in SzBarsDomain :
           DashboardBuy(entry_price, TRUE, account, bars).order # None

\* an order has been submitted
C19_WitnessOrder ==
    /\ st_buy # None
    /\ BuyOrder # None


(***************************************************************************)
(* Properties of the start-up                                              *)
(***************************************************************************)
\* C21: when an API credential is missing at start-up the engine does not
\* start: it never enters its polling loop and never runs a cycle.
C21_FatalConfig ==
    KeysMissing => /\ boot_pc \notin {"loop", "sleep"}
                   /\ boot_iters = 0
                   /\ boot_cycles = 0

\* in SpecBoot: without credentials run_auto_trader runs no trading cycle
C21_NoCycleWithoutKeys ==
    boot_prog = "auto_trader" /\ KeysMissing => boot_cycles = 0

\* run_auto_trader is in its second iteration without credentials
C21_LoopsWithoutKeys ==
    /\ boot_prog = "auto_trader"
    /\ KeysMissing
    /\ boot_iters = 2
    /\ boot_cycles = 0


(***************************************************************************)
(* Properties of the writers of the trades table                           *)
(***************************************************************************)
\* C22: for one user at most one execution is between its read of the
\* day's counts and its append to the trades table, and the day's buys
\* never exceed max_daily_buys nor the day's total max_daily_trades.
C22_SingleWriter ==
    /\ Cardinality({e \in Executions : w_pc[e] = "passed"}) <= 1
    /\ w_ledger.buys <= w_caps.max_daily_buys
    /\ w_ledger.buys + w_ledger.sells <= w_caps.max_daily_trades

\* both executions passed check_daily_limits("BUY") on the same counts and
\* both logged their buy
C22_BothPassed ==
    /\ w_caps.max_daily_buys = 1
    /\ w_ledger.buys = 2
    /\ w_ledger.sells = 0
    /\ w_pc = [e \in Executions |-> "idle"]


(***************************************************************************)
(* Properties of the end of Simulator.run                                  *)
(***************************************************************************)
\* the loop is between two iterations: in time.sleep, no symbol read yet
BetweenIterations ==
    /\ sim_idx = 1
    /\ sim_cur = None
    /\ sim_prices = [s \in SimSymbols |-> None]

\* C23: Simulator.run stops only between iterations (every symbol of a
\* started iteration is processed and equity is marked before it ends),
\* and when it has stopped the equity log is flushed and empty.
C23_CooperativeStop ==
    sim_pc = "stopped" => BetweenIterations /\ sim_equity_log = <<>>

\* in SpecSim: when run has returned from its KeyboardInterrupt handler,
\* the equity log is empty
C23_FlushedAtStop == sim_pc = "stopped" => sim_equity_log = <<>>

\* run stopped after the first symbol of a tick, before the second
C23_StoppedMidIteration ==
    /\ sim_pc = "stopped"
    /\ sim_idx = 2
    /\ sim_prices[WATCHLIST[1]] # None


(***************************************************************************)
(* Properties of the order of exits and entries                            *)
(***************************************************************************)
\* manage_exits was called for s in the iteration that is ending: it is
\* called in the step that stores the price of s
ExitsEvaluated(s) == sim_prices[s] # None

\* a position is opened only at the entries of the symbol whose exits were
\* evaluated in the step before
EntriesAfterExits ==
    \A r \in Appended :
        r.action = "OPEN" => /\ sim_pc = "entries"
                             /\ r.symbol = WATCHLIST[sim_idx]
                             /\ ExitsEvaluated(r.symbol)

\* C24: in every iteration of Simulator.run manage_exits is evaluated for
\* every symbol that has an open Position (whoever is open when the symbols
\* are done had its exits evaluated in that iteration), and it is evaluated
\* before any entry for the same symbol.
C24_ExitsEveryCycle ==
    /\ [](sim_pc = "mark" => \A s \in SimSymbols : Open(s) => ExitsEvaluated(s))
    /\ [][EntriesAfterExits]_vars

\* in SpecSim: entries come after the exits of the same symbol
C24_ExitsBeforeEntries == [][EntriesAfterExits]_vars

\* an iteration ends with a position whose exits were not evaluated
C24_ExitsSkipped ==
    /\ sim_pc = "mark"
    /\ \E s \in SimSymbols : Open(s) /\ ~ExitsEvaluated(s)


(***************************************************************************)
(* Properties of the cash of the Simulator                                 *)
(***************************************************************************)
\* a step that leaves the position of the symbol it works on in the store
\* leaves the cash as it is
CashWithRemoval ==
    \A s \in SimSymbols :
        /\ sim_pc = "exits"
        /\ s = WATCHLIST[sim_idx]
        /\ Open(s)
        /\ sim_positions'[s] # None
        => sim_cash' = sim_cash

\* C25: when recording the trade fails inside exit_position or enter_long,
\* cash and position store stay consistent: cash is never credited with
\* the proceeds of a position that is still in the store.
C25_CashWithRemoval == [][CashWithRemoval]_vars

\* in SpecSim: a failure of the record inside enter_long leaves the cash
\* debited and the position stored, both or neither
C25_EnterConsistent ==
    [][\A s \in SimSymbols :
          sim_pc = "entries" /\ s = WATCHLIST[sim_idx] /\ ~Open(s)
          => IF sim_positions'[s] # None /\ Val(sim_positions'[s]).side = "LONG"
             THEN sim_cash' = sim_cash - Val(sim_positions'[s]).entry * QTY
             ELSE sim_cash' = sim_cash]_vars

\* the proceeds of a position are in the cash, the position is in the store
C25_CreditedAndOpen ==
    /\ sim_caught
    /\ Len(sim_trade_log) = 2
    /\ LastRow(sim_trade_log).action = "CLOSE"
    /\ Open(LastRow(sim_trade_log).symbol)
    /\ Held(LastRow(sim_trade_log).symbol).side = "LONG"
    /\ sim_cash = StartCash - Held(LastRow(sim_trade_log).symbol).entry
                  + LastRow(sim_trade_log).price

(***************************************************************************)
(* C26: the ledger of log_trade read by analyze_pnl                        *)
(***************************************************************************)
\* the step reads the record of a sell right after the record of a buy of
\* the same symbol, both written through log_trade
LoggedBuyThenSell ==
    /\ row = Some(ReadRow(LoggedBuy))
    /\ row' = Some(ReadRow(LoggedSell))
    /\ LoggedBuy.side = "BUY" /\ LoggedSell.side = "SELL"
    /\ LoggedBuy.symbol = LoggedSell.symbol

\* C26: a BUY logged through log_trade followed by a SELL logged through
\* log_trade for the same symbol yields at least one pair
C26_LoggedPairYieldsPair ==
    [][LoggedBuyThenSell => Len(pairs') > Len(pairs)]_vars

\* C26: what the code does with such a ledger: the records are neither lots
\* nor sells, since row["action"] is OPEN or CLOSE and the status EXECUTED
C26_LoggedRowsSkipped ==
    [][(row' \in {Some(ReadRow(LoggedBuy)), Some(ReadRow(LoggedSell))})
          => (open_buys' = open_buys /\ pairs' = pairs)]_vars

\* C26: the whole log is a logged BUY and then a logged SELL, and the
\* result reports no pair
C26_NoPairReported ==
    /\ pnl_pc = "done"
    /\ n_rows = 2
    /\ row = Some(ReadRow(LoggedSell))
    /\ tally["AAPL"] = [buys |-> 0, lots |-> 0, sells |-> 0]
    /\ Val(pnl_result).paired_trades = 0


(***************************************************************************)
(* C27: the score of a qualifying signal                                   *)
(***************************************************************************)
\* the first test of analyze_buying_strategy passes
Qualifies ==
    /\ st_in.analysis.signal \in {"BUY", "STRONG BUY"}
    /\ st_in.analysis.confidence >= st_in.min_confidence

\* position_pct >= 0.7 * max_position_pct
AtLeastSevenTenths(position_pct, max_position_pct) ==
    position_pct.num * 10 >= 7 * max_position_pct * position_pct.den

C27_WitnessLowConfidence ==
    /\ st_strategy # None
    /\ st_in.analysis.signal = "BUY"
    /\ st_in.analysis.confidence < st_in.min_confidence
    /\ ~Val(st_strategy).should_buy


(***************************************************************************)
(* C28: cash of the Simulator                                              *)
(***************************************************************************)
RECURSIVE OpenLongCost(_, _)
\* the sum of entry * qty over the open LONG positions
OpenLongCost(held, i) ==
    IF i = 0 THEN 0
    ELSE OpenLongCost(held, i - 1)
         + (IF held[WATCHLIST[i]] # None /\ Val(held[WATCHLIST[i]]).side = "LONG"
            THEN Val(held[WATCHLIST[i]]).entry * Val(held[WATCHLIST[i]]).qty
            ELSE 0)

RECURSIVE RealizedPnl(_)
\* the sum of the PnL of the closed positions, as the CLOSE rows report it
RealizedPnl(log) ==
    IF log = <<>> THEN 0
    ELSE (IF Head(log).action = "CLOSE" THEN Head(log).note.pnl ELSE 0)
         + RealizedPnl(Tail(log))

\* cash = start - cost of the open LONG positions + realized PnL
Conserved ==
    sim_cash = StartCash - OpenLongCost(sim_positions, Len(WATCHLIST))
                   + RealizedPnl(sim_trade_log)

\* enter_long of a symbol without a position, with less cash than the cost
\* of one share: cash and positions stay, the row says REJECT
RejectedEnterLong ==
    \A s \in SimSymbols, px \in SimPriceDomain, csv_ok \in BOOLEAN :
        sim_positions[s] = None =>
            LET poor == [SimState EXCEPT !.cash = px * QTY - 1]
                st == EnterLong(poor, s, px, csv_ok)
            IN  /\ st.cash = poor.cash
                /\ st.positions = poor.positions
                /\ st.trade_log[Len(st.trade_log)].action = "REJECT"

\* C28: before any call, and after every call of enter_long, enter_short,
\* manage_exits and exit_position that completes without error, cash =
\* start cash - (entry * qty of the open LONG positions) + (realized PnL of
\* the closed positions); a rejected enter_long changes neither cash nor
\* positions
C28_CashConservation ==
    /\ [](/\ sim_trade_log = <<>> => Conserved
          /\ RejectedEnterLong)
    /\ [][(Conserved /\ ~sim_caught') => Conserved']_vars

\* C28: a position was opened and closed at another price without error,
\* no position is open, and cash is the start cash plus the PnL
C28_Witness ==
    /\ Len(sim_trade_log) = 2
    /\ sim_trade_log[2].action = "CLOSE"
    /\ sim_trade_log[2].note.pnl # 0
    /\ \A s \in SimSymbols : sim_positions[s] = None
    /\ ~sim_caught
    /\ sim_cash = StartCash + sim_trade_log[2].note.pnl

\* C28: a LONG position is open and another symbol is about to be entered
C28_WitnessOpen ==
    /\ OpenLongCost(sim_positions, Len(WATCHLIST)) > 0
    /\ sim_cash = StartCash - OpenLongCost(sim_positions, Len(WATCHLIST))
    /\ sim_pc = "entries"


(***************************************************************************)
(* C29: the equity of mark_equity                                          *)
(***************************************************************************)
\* mark_equity has just run
Marked == sim_pc = "flush"

\* C29: the equity recorded by mark_equity is cash plus the market value of
\* the open positions (positions_value of the same row), so that a LONG
\* position opened at p and marked at p leaves the equity where it was
C29_EquityIsCashPlusValue ==
    Marked => sim_equity = sim_cash + PositionsValue(sim_positions, sim_prices,
                                                     Len(WATCHLIST))

\* C29: what mark_equity records: cash plus the unrealized PnL
C29_EquityIsCashPlusUnrealized ==
    Marked => sim_equity = sim_cash + UnrealizedTotal(sim_positions, sim_prices,
                                                      Len(WATCHLIST))

\* C29: the first tick opened one LONG position and marked it at its entry
\* price: the equity fell from the start cash by the cost of the position
C29_EquityFellByCost ==
    /\ Marked
    /\ Len(sim_trade_log) = 1
    /\ sim_trade_log[1].action = "OPEN" /\ sim_trade_log[1].side = "LONG"
    /\ sim_prices[sim_trade_log[1].symbol] = Some(sim_trade_log[1].price)
    /\ sim_equity = StartCash - sim_trade_log[1].price * QTY
    /\ sim_equity_log[Len(sim_equity_log)].positions_value = sim_trade_log[1].price * QTY


(***************************************************************************)
(* C30: the records of AutoTrader and the orders it submitted              *)
(***************************************************************************)
\* orders accepted by the broker in this step; the counters of the day only
\* fall at midnight
OrdersOfStep ==
    LET more == (submitted'.buys + submitted'.sells) - (submitted.buys + submitted.sells)
    IN  IF more > 0 THEN more ELSE 0

\* every record carries a quantity >= 1 and a price > 0
RecordsPriced ==
    \A i \in DOMAIN trades : trades[i].quantity >= 1 /\ trades[i].price > 0

\* a step appends a record only with an order it submitted, one for one
RecordOnlyWithOrder ==
    Len(trades') # Len(trades) =>
        /\ Len(trades') = Len(trades) + 1
        /\ OrdersOfStep = 1

\* a step that submits an order appends its record
OrderThenRecord ==
    OrdersOfStep > 0 => Len(trades') = Len(trades) + OrdersOfStep

\* C30: every record appended by AutoTrader corresponds to exactly one
\* submitted order and carries quantity >= 1 and price > 0, and every
\* submitted order is followed by exactly one appended record
C30_RecordPerOrder ==
    /\ []RecordsPriced
    /\ [][RecordOnlyWithOrder /\ OrderThenRecord]_vars

\* C30: the half that holds: a record is appended only with the order that
\* was submitted in the same call, and its quantity is at least 1
C30_RecordOnlyWithOrder ==
    /\ [](\A i \in DOMAIN trades : trades[i].quantity >= 1)
    /\ [][RecordOnlyWithOrder]_vars

\* C30: get_latest_trade raised after a sell order: the record has price 0
C30_PlaceholderPrice ==
    \E i \in DOMAIN trades : trades[i].side = "SELL" /\ trades[i].price = 0

\* C30: log_trade raised after submit_order: an order without a record
C30_OrderWithoutRecord ==
    /\ lost > 0
    /\ tr_last # None
    /\ Val(tr_last).failed
    /\ submitted.buys + submitted.sells > Len(trades)


====
